---------------------------- MODULE Spec2Model ----------------------------
(***************************************************************************)
(* A model of the qdx-receiver's CAT command engine (libs/cat/cat.rs) and  *)
(* of the callers that reach it through the shared Mutex<Cat>              *)
(* (libs/receiver/receiver.rs, main.rs).                                   *)
(*                                                                         *)
(* The radio at the other end of the serial line is the environment: it    *)
(* may answer each request it was sent, at any later time, with any of a   *)
(* set of replies, or never. Time is a clock of ticks that advances while  *)
(* a serial read is blocked; a read returns its timeout error when it has  *)
(* been blocked for TimeoutTicks.                                          *)
(*                                                                         *)
(* Bytes are one-character strings; a byte sequence is a sequence of them. *)
(* BadByte stands for a byte that is not valid UTF-8 on its own (0xFF).    *)
(* A u32 is kept as two 16-bit limbs [hi, lo] so that the 32-bit width is  *)
(* exact: formatting is repeated division by ten, parsing is checked       *)
(* multiply-by-ten-and-add, both on the limbs.                             *)
(*                                                                         *)
(* The second half models the Receiver's audio path (receiver.rs): the     *)
(* duplex callback that scales the input buffer and smooths the signal     *)
(* level under the callback_data RwLock, set_amplitude, set_gui_input and  *)
(* the relay thread that sends the level to the GUI's bounded channel.     *)
(* An f32 is a record [k, s, m, e] (kind, sign, 24-bit significand,        *)
(* exponent) with IEEE-754 binary32 round-to-nearest-even arithmetic.      *)
(*                                                                         *)
(* The life of the Receiver is modelled as well: start_duplex_callback     *)
(* with a device that accepts or rejects the stream, the consumer of the   *)
(* channel going away, the terminate flag, and the steps of Drop.          *)
(***************************************************************************)
EXTENDS Integers, Sequences, FiniteSets, TLC

(* ------------------------------ bounds -------------------------------- *)

\* Threads that share the Arc<Mutex<Cat>>.
NumCallers == 2
\* Cat operations started in one behaviour.
MaxOps == 2
\* The serial read timeout (cat.rs:24, 250 ms), in clock ticks of the model.
TimeoutTicks == 2

(* ------------------------- program constants -------------------------- *)

\* cat.rs:49  request.len() < 3
MinRequestLen == 3
\* cat.rs:84  response.len() < 2
MinResponseLen == 2
\* cat.rs:105 \d{11}
FreqDigits == 11
Limb == 2 ^ 16

(* ------------------------------- bytes --------------------------------- *)

Digits == <<"0", "1", "2", "3", "4", "5", "6", "7", "8", "9">>
BadByte == "xFF"
Terminator == ";"

IsDigit(c) == \E d \in 1..10 : Digits[d] = c
DigitVal(c) == (CHOOSE d \in 1..10 : Digits[d] = c) - 1
DigitChar(d) == Digits[d + 1]

(* --------------------------- u32 arithmetic ---------------------------- *)

U32Zero == [hi |-> 0, lo |-> 0]
U32Max == [hi |-> Limb - 1, lo |-> Limb - 1]
\* n < 2^31 as a u32
FromNat(n) == [hi |-> n \div Limb, lo |-> n % Limb]

\* v / 10 and v % 10 on the limbs.
DivMod10(v) ==
  LET t == (v.hi % 10) * Limb + v.lo
  IN  [q |-> [hi |-> v.hi \div 10, lo |-> t \div 10], r |-> t % 10]

\* The decimal digits of v, most significant first, no padding:
\* what format!("{}", v) writes for a u32.
RECURSIVE FmtDisplayU32(_)
FmtDisplayU32(v) ==
  LET dm == DivMod10(v)
  IN  IF dm.q = U32Zero THEN <<DigitChar(dm.r)>>
      ELSE Append(FmtDisplayU32(dm.q), DigitChar(dm.r))

\* As CheckedMulAdd10, with wrapping arithmetic: overflow goes unnoticed.
CheckedMulAdd10_Wrapping(acc, d) ==
  LET lo == acc.lo * 10 + d
      hi == acc.hi * 10 + (lo \div Limb)
  IN  [overflow |-> FALSE, value |-> [hi |-> hi % Limb, lo |-> lo % Limb]]

\* acc.checked_mul(10)?.checked_add(d)? on the limbs; overflow when the
\* result does not fit 32 bits.
CheckedMulAdd10(acc, d) ==
  LET lo == acc.lo * 10 + d
      hi == acc.hi * 10 + (lo \div Limb)
  IN  [overflow |-> hi >= Limb, value |-> [hi |-> hi % Limb, lo |-> lo % Limb]]

\* str::parse::<u32>(s): every character an ASCII digit, the value within
\* 32 bits; [ok, value].
RECURSIVE ParseU32From(_, _, _)
ParseU32From(s, i, acc) ==
  IF i > Len(s) THEN [ok |-> TRUE, value |-> acc]
  ELSE IF ~IsDigit(s[i]) THEN [ok |-> FALSE, value |-> U32Zero]
  ELSE LET step == CheckedMulAdd10(acc, DigitVal(s[i]))
       IN  IF step.overflow THEN [ok |-> FALSE, value |-> U32Zero]
           ELSE ParseU32From(s, i + 1, step.value)

ParseU32(s) ==
  IF Len(s) = 0 THEN [ok |-> FALSE, value |-> U32Zero]
  ELSE ParseU32From(s, 1, U32Zero)

(* --------------------------- Cat, pure parts --------------------------- *)

\* A byte on the serial line, with the number of the request the radio sent
\* it in reply to. The tag is bookkeeping; the code sees b.
Bytes(tagged) == [i \in 1..Len(tagged) |-> tagged[i].b]
Tagged(bytes, k) == [i \in 1..Len(bytes) |-> [b |-> bytes[i], for |-> k]]

Ok(resp, value) == [ok |-> TRUE, err |-> "", resp |-> resp, value |-> value]
Err(kind) == [ok |-> FALSE, err |-> kind, resp |-> <<>>, value |-> U32Zero]
NoResult == Err("none")

\* The errors that the radio's conduct causes: cat.rs:78 (no response),
\* cat.rs:85, cat.rs:89, cat.rs:98, cat.rs:113 and cat.rs:109.
ResponseErrors ==
  {"NoResponse", "TooShort", "Mismatch", "NotUtf8", "UnexpectedFrequency",
   "ParseInt"}

\* cat.rs:118  format!("FA{};", frequency_hz)
SetFrequencyRequest(f) == <<"F", "A">> \o FmtDisplayU32(f) \o <<";">>

\* cat.rs:104  the request of get_frequency
GetFrequencyRequest == <<"F", "A", ";">>

\* As RequestTooShort, one off: a request of two characters passes.
RequestTooShort_OneOff(request) == Len(request) < MinRequestLen - 1

\* cat.rs:49  the length check of send_request
RequestTooShort(request) == Len(request) < MinRequestLen

\* As WriteOutcome, without the comparison of the count written.
WriteOutcome_CountIgnored(request, wr) ==
  IF ~wr.ok THEN Err("Io") ELSE Ok(<<>>, U32Zero)

\* cat.rs:53-57  what send_request returns once serial_port.write has
\* returned wr = [ok, n]: the io error, the short write, or Ok(()).
WriteOutcome(request, wr) ==
  IF ~wr.ok THEN Err("Io")
  ELSE IF wr.n # Len(request) THEN Err("ShortWrite")
  ELSE Ok(<<>>, U32Zero)

\* std::str::from_utf8: the bytes of the model are ASCII but for BadByte.
ValidUtf8(bytes) == \A i \in 1..Len(bytes) : bytes[i] # BadByte

\* cat.rs:88  the echo check of receive_response
ResponseMismatch(request, response) ==
  response[1] # request[1] /\ response[2] # request[2]

\* cat.rs:82-100  receive_response once the terminator has been read.
ReceiveOutcome(request, received) ==
  LET response == Bytes(received)
  IN  IF ~ValidUtf8(response) THEN Err("NotUtf8")
      ELSE IF Len(response) < MinResponseLen THEN Err("TooShort")
      ELSE IF ResponseMismatch(request, response) THEN Err("Mismatch")
      ELSE Ok(received, U32Zero)

\* Whether FA(\d{11}); matches s at position i.
FaRegexMatchesAt(s, i) ==
  /\ i + FreqDigits + 2 <= Len(s)
  /\ s[i] = "F"
  /\ s[i + 1] = "A"
  /\ \A j \in 1..FreqDigits : IsDigit(s[i + 1 + j])
  /\ s[i + FreqDigits + 2] = ";"

\* cat.rs:105-106  Regex::captures searches the whole text for the leftmost
\* match; 0 when there is none.
FaRegexFind(s) ==
  IF \E i \in 1..Len(s) : FaRegexMatchesAt(s, i)
  THEN CHOOSE i \in 1..Len(s) :
         /\ FaRegexMatchesAt(s, i)
         /\ \A k \in 1..(i - 1) : ~FaRegexMatchesAt(s, k)
  ELSE 0

\* cat.rs:104-114  get_frequency from the result of transact("FA;").
GetFrequencyOutcome(transacted) ==
  IF ~transacted.ok THEN transacted
  ELSE LET s == Bytes(transacted.resp)
           at == FaRegexFind(s)
       IN  IF at = 0 THEN Err("UnexpectedFrequency")
           ELSE LET parsed == ParseU32(SubSeq(s, at + 2, at + 1 + FreqDigits))
                IN  IF parsed.ok THEN Ok(transacted.resp, parsed.value)
                    ELSE Err("ParseInt")

(* ------------------------------- inputs -------------------------------- *)

Threads == 1..NumCallers
NoThread == 0

\* Frequencies handed to set_frequency: 0, 7074000 and u32::MAX.
SetFrequencies == {U32Zero, FromNat(7074000), U32Max}

\* Frequencies rendered and parsed back: small ones, powers of ten, 7074000
\* (107 * 2^16 + 61648), and the largest of each limb.
RoundTripFrequencies ==
  {[hi |-> h, lo |-> l] :
     h \in {0, 1, 107, Limb - 1},
     l \in {0, 1, 9, 10, 99, 100, 999, 1000, 61648, Limb - 1}}

\* Requests handed to transact directly; the first two are shorter than a
\* CAT command can be.
RawRequests == {<<>>, <<"F", "A">>, <<"F", "A", ";">>}

\* 11-digit frequency fields a radio may send.
Digits14074000 == <<"0", "0", "0", "1", "4", "0", "7", "4", "0", "0", "0">>
DigitsU32Max == <<"0", "4", "2", "9", "4", "9", "6", "7", "2", "9", "5">>
DigitsU32MaxPlus1 == <<"0", "4", "2", "9", "4", "9", "6", "7", "2", "9", "6">>
DigitsAllNines == <<"9", "9", "9", "9", "9", "9", "9", "9", "9", "9", "9">>
ReplyDigits == {Digits14074000, DigitsU32Max, DigitsU32MaxPlus1, DigitsAllNines}

FaReply(d) == <<"F", "A">> \o d \o <<";">>

\* What the radio may put on the line in answer to a request: well-formed FA
\* replies, and replies that are wrong in one way each.
RadioReplies ==
  {FaReply(d) : d \in ReplyDigits} \cup
  { <<"F", "B", "0", "0", "0", "1", "4", "0", "7", "4", "0", "0", "0", ";">>,  \* second character differs from the request's
    <<"I", "A", "0", "0", "0", "1", "4", "0", "7", "4", "0", "0", "0", ";">>,  \* first character differs
    <<"I", "F", ";">>,  \* both differ
    <<"F", "A", "F", "A", "0", "0", "0", "1", "4", "0", "7", "4", "0", "0", "0", ";">>,  \* text before the FA reply
    <<"F", "A", "0", "0", "1", "4", "0", "7", "4", "0", "0", "0", ";">>,  \* 10 digits
    <<"F", "A", "0", "0", "0", "0", "1", "4", "0", "7", "4", "0", "0", "0", ";">>,  \* 12 digits
    <<";">>,  \* the terminator alone
    <<"F", "A", BadByte, ";">>,  \* not UTF-8
    <<"F", "A", "0", "0">> }  \* no terminator

\* What serial_port.write may return for a request of n >= 1 bytes:
\* an io error, nothing written, one byte short, or all of it.
WriteResults(n) ==
  {[ok |-> FALSE, n |-> 0]} \cup {[ok |-> TRUE, n |-> k] : k \in {0, n - 1, n}}

(* -------------------------------- state -------------------------------- *)

VARIABLES
  pc,        \* per thread: "idle", "locked", "receiving" or "panicked"
  op,        \* per thread: the Cat operation it is in (NoOp when in none)
  received,  \* per thread: receive_response's Vec<u8>, tagged
  io,        \* per thread: the transport calls of its operation so far
  waited,    \* per thread: ticks its pending serial read has been blocked
  elapsed,   \* per thread: ticks since its receive_response began
  catLock,   \* the thread holding the Mutex<Cat>, or NoThread
  poisoned,  \* whether a thread panicked holding the Mutex<Cat>
  portOut,   \* the bytes the last serial write put on the line
  wire,      \* the serial input buffer: tagged bytes not yet read
  nreq,      \* requests sent to the radio so far
  answered,  \* the requests the radio has replied to
  nops,      \* operations started so far
  lastFailed,\* whether the radio's conduct failed the last finished operation
  returned   \* the last finished operation: who ran it, what it was, its
             \* transport calls, the bytes it read and what the Cat returned,
             \* until the next operation starts

vars == <<pc, op, received, io, waited, elapsed, catLock, poisoned, portOut,
          wire, nreq, answered, nops, lastFailed, returned>>

NoOp == [kind |-> "none", request |-> <<>>, freq |-> U32Zero, seq |-> 0,
         afterFail |-> FALSE]
NoIo == [writes |-> 0, reads |-> 0, wrote |-> -1]
NoReturn == [by |-> NoThread, op |-> NoOp, io |-> NoIo, got |-> <<>>,
             res |-> NoResult]

\* cat.rs:26-33, main.rs:872-873: the port is open, the mutex free, no
\* thread has called yet.
CatNew ==
  /\ pc = [t \in Threads |-> "idle"]
  /\ op = [t \in Threads |-> NoOp]
  /\ received = [t \in Threads |-> <<>>]
  /\ io = [t \in Threads |-> NoIo]
  /\ waited = [t \in Threads |-> 0]
  /\ elapsed = [t \in Threads |-> 0]
  /\ catLock = NoThread
  /\ poisoned = FALSE
  /\ portOut = <<>>
  /\ wire = <<>>
  /\ nreq = 0
  /\ answered = {}
  /\ nops = 0
  /\ lastFailed = FALSE
  /\ returned = NoReturn

(* ----------------------- f32 (IEEE 754 binary32) ---------------------- *)

\* A finite f32 is (-1)^s * m * 2^e with m < 2^24; a normal value has
\* m >= 2^23, a subnormal one e = F32MinExp, and zero m = 0, e = F32MinExp.
\* Results are rounded to nearest, ties to even, as the hardware does.
F32MantBits == 24
F32MinExp == 0 - 149
F32MaxExp == 104

Pow2(n) == 2 ^ n

RECURSIVE BitLen(_)
BitLen(n) == IF n = 0 THEN 0 ELSE 1 + BitLen(n \div 2)

Max2(a, b) == IF a >= b THEN a ELSE b
Min2(a, b) == IF a <= b THEN a ELSE b

F32NaN == [k |-> "nan", s |-> 0, m |-> 0, e |-> 0]
F32Inf(s) == [k |-> "inf", s |-> s, m |-> 0, e |-> 0]
F32Zero(s) == [k |-> "fin", s |-> s, m |-> 0, e |-> F32MinExp]

IsNaN(x) == x.k = "nan"
IsInf(x) == x.k = "inf"
IsZero(x) == x.k = "fin" /\ x.m = 0
IsFinite(x) == x.k = "fin"

\* The f32 nearest to (-1)^s * (M + f) * 2^e, where M < 2^30 and 0 <= f < 1
\* with f > 0 iff sticky; a caller that sets sticky passes M >= 2^26.
F32Round(s, M, e, sticky) ==
  IF M = 0 THEN F32Zero(s)
  ELSE
    LET bits == BitLen(M)
        sh == Max2(bits - F32MantBits, F32MinExp - e)
    IN  IF sh <= 0
        THEN LET l == Min2(F32MantBits - bits, e - F32MinExp)
             IN  [k |-> "fin", s |-> s, m |-> M * Pow2(l), e |-> e - l]
        ELSE IF sh > bits THEN F32Zero(s)
        ELSE
          LET q == M \div Pow2(sh)
              r == M % Pow2(sh)
              half == Pow2(sh - 1)
              up == \/ r > half
                    \/ r = half /\ sticky
                    \/ r = half /\ ~sticky /\ q % 2 = 1
              q1 == IF up THEN q + 1 ELSE q
              m1 == IF q1 = Pow2(F32MantBits) THEN Pow2(F32MantBits - 1) ELSE q1
              e1 == IF q1 = Pow2(F32MantBits) THEN e + sh + 1 ELSE e + sh
          IN  IF m1 = 0 THEN F32Zero(s)
              ELSE IF e1 > F32MaxExp THEN F32Inf(s)
              ELSE [k |-> "fin", s |-> s, m |-> m1, e |-> e1]

\* The f32 written as the literal n.0 or n / 2^d in the source.
F32Lit(n) == F32Round(IF n < 0 THEN 1 ELSE 0, IF n < 0 THEN 0 - n ELSE n, 0, FALSE)
F32Half == F32Round(0, 1, 0 - 1, FALSE)

F32Neg(x) == IF IsNaN(x) THEN x ELSE [x EXCEPT !.s = 1 - x.s]

\* f32::abs
F32Abs(x) == IF IsNaN(x) THEN x ELSE [x EXCEPT !.s = 0]

\* a * b: the 48-bit product of the mantissas is built from 12-bit halves
\* and cut to 30 bits plus a sticky bit before rounding.
F32Mul(a, b) ==
  LET s == (a.s + b.s) % 2 IN
  IF IsNaN(a) \/ IsNaN(b) THEN F32NaN
  ELSE IF IsInf(a) \/ IsInf(b)
       THEN IF IsZero(a) \/ IsZero(b) THEN F32NaN ELSE F32Inf(s)
  ELSE IF IsZero(a) \/ IsZero(b) THEN F32Zero(s)
  ELSE
    LET a1 == a.m \div 4096
        a0 == a.m % 4096
        b1 == b.m \div 4096
        b0 == b.m % 4096
        mid == a1 * b0 + a0 * b1
        low == a0 * b0 + (mid % 4096) * 4096
        hi == a1 * b1 + mid \div 4096 + low \div Pow2(24)
        lo == low % Pow2(24)
        d == Max2(BitLen(hi) - 6, 0)
        M == hi * Pow2(24 - d) + lo \div Pow2(d)
    IN  F32Round(s, M, a.e + b.e + d, lo % Pow2(d) # 0)

\* The sum of two finite non-zero values, hi the one with the larger exponent.
F32AddFinite(hi, lo) ==
  LET d == hi.e - lo.e
      g == Min2(d, 5)
      r == d - g
      A == hi.m * Pow2(g)
      B == IF r >= F32MantBits THEN 0 ELSE lo.m \div Pow2(r)
      sticky == IF r >= F32MantBits THEN TRUE ELSE lo.m % Pow2(r) # 0
      E == hi.e - g
  IN  IF hi.s = lo.s THEN F32Round(hi.s, A + B, E, sticky)
      ELSE IF sticky THEN F32Round(hi.s, A - B - 1, E, TRUE)
      ELSE IF A = B THEN F32Zero(0)
      ELSE IF A > B THEN F32Round(hi.s, A - B, E, FALSE)
      ELSE F32Round(lo.s, B - A, E, FALSE)

\* a + b
F32Add(a, b) ==
  IF IsNaN(a) \/ IsNaN(b) THEN F32NaN
  ELSE IF IsInf(a) /\ IsInf(b) THEN (IF a.s = b.s THEN a ELSE F32NaN)
  ELSE IF IsInf(a) THEN a
  ELSE IF IsInf(b) THEN b
  ELSE IF IsZero(a) /\ IsZero(b) THEN F32Zero(IF a.s = b.s THEN a.s ELSE 0)
  ELSE IF IsZero(a) THEN b
  ELSE IF IsZero(b) THEN a
  ELSE IF a.e >= b.e THEN F32AddFinite(a, b)
  ELSE F32AddFinite(b, a)

\* a - b
F32Sub(a, b) == F32Add(a, F32Neg(b))

\* n further quotient bits of r / d, by long division.
RECURSIVE DivSteps(_, _, _, _)
DivSteps(q, r, d, n) ==
  IF n = 0 THEN [q |-> q, r |-> r]
  ELSE IF 2 * r >= d THEN DivSteps(2 * q + 1, 2 * r - d, d, n - 1)
  ELSE DivSteps(2 * q, 2 * r, d, n - 1)

\* a / b
F32Div(a, b) ==
  LET s == (a.s + b.s) % 2 IN
  IF IsNaN(a) \/ IsNaN(b) THEN F32NaN
  ELSE IF IsInf(a) THEN (IF IsInf(b) THEN F32NaN ELSE F32Inf(s))
  ELSE IF IsInf(b) THEN F32Zero(s)
  ELSE IF IsZero(b) THEN (IF IsZero(a) THEN F32NaN ELSE F32Inf(s))
  ELSE IF IsZero(a) THEN F32Zero(s)
  ELSE
    LET la == F32MantBits - BitLen(a.m)
        lb == F32MantBits - BitLen(b.m)
        ma == a.m * Pow2(la)
        mb == b.m * Pow2(lb)
        q0 == IF ma >= mb THEN 1 ELSE 0
        qr == DivSteps(q0, ma - q0 * mb, mb, 26)
    IN  F32Round(s, qr.q, (a.e - la) - (b.e - lb) - 26, qr.r # 0)

\* a < b
F32MagLt(a, b) ==
  IF IsInf(a) THEN FALSE
  ELSE IF IsInf(b) THEN TRUE
  ELSE a.e < b.e \/ (a.e = b.e /\ a.m < b.m)

F32Lt(a, b) ==
  IF IsNaN(a) \/ IsNaN(b) THEN FALSE
  ELSE IF IsZero(a) /\ IsZero(b) THEN FALSE
  ELSE IF a.s # b.s THEN a.s = 1
  ELSE IF a.s = 0 THEN F32MagLt(a, b)
  ELSE F32MagLt(b, a)

\* a > b
F32Gt(a, b) == F32Lt(b, a)

\* a == b, as f32 compares: NaN equals nothing, +0.0 equals -0.0.
F32Eq(a, b) ==
  IF IsNaN(a) \/ IsNaN(b) THEN FALSE
  ELSE IF IsZero(a) /\ IsZero(b) THEN TRUE
  ELSE a = b

(* ----------------------------- the receiver ---------------------------- *)

\* Callback invocations started in one behaviour.
MaxCallbacks == 2
\* Sinks handed to set_gui_input in one behaviour.
MaxSinks == 2
\* Iterations of the relay loop followed while the audio stream runs.
MaxRelayRuns == 1

\* receiver.rs:35  const AMPLITUDE_GAIN: f32 = 90.0
AMPLITUDE_GAIN == F32Lit(90)
\* main.rs:884  DuplexStreamSettings::new(.., 64): frames per callback
FramesPerBuffer == 64
\* receiver.rs:100  frames * 2 interleaved samples
SamplesPerBuffer == FramesPerBuffer * 2
\* gui.rs:94  sync_channel::<GUIInputMessage>(16)
ChannelCapacity == 16

\* Arguments handed to set_amplitude: muted, full, and beyond full.
SetAmplitudes == {F32Zero(0), F32Lit(1), F32Lit(2)}

\* Input buffers PortAudio hands to the callback: a square wave of
\* magnitude 0.5, and the same with one sample that is not finite.
ToneBuffer ==
  [i \in 1..SamplesPerBuffer |-> IF i % 2 = 1 THEN F32Half ELSE F32Neg(F32Half)]
GlitchBuffer == [ToneBuffer EXCEPT ![1] = F32Inf(0)]
InBuffers == {ToneBuffer, GlitchBuffer}

\* Message numbers run from 0 to SerialRange - 1 and start again: more of
\* them than a full channel and the consumer's last message together hold.
SerialRange == ChannelCapacity + 2

\* What the audio device does with the stream start_duplex_callback asks
\* for: it opens and starts it, rejects the configuration, or opens it and
\* fails to start it.
DeviceOutcomes == {"starts", "open_rejected", "start_fails"}

\* Messages the Gui handles in one behaviour.
MaxGuiMessages == 3
\* gui.rs:393  if self.frequency + pow < 99999999
MaxFrequency == 99999999
\* gui.rs:268-283  the digits of the up and down buttons
GuiDigits == 0..7
\* gui.rs:285-294  the bands of the band buttons
BandMetres == {80, 60, 40, 30, 20, 17, 15, 12, 11, 10}
\* gui.rs:297  volume_slider.set_bounds(0.0, 1.0): values the slider sends
SliderAmplitudes == {F32Zero(0), F32Half, F32Lit(1)}
\* Frequencies Gui::new is given (main.rs:875, 889): the ends of the range
\* the display shows, the 20 m frequency, and ones a step from an end.
GuiStartFrequencies ==
  {0, 9, 14074000, 89999999, MaxFrequency - 2, MaxFrequency - 1}
\* Frames of the buffers handed to the callback, 64 among them.
BufferFrames == {1, 2, 4, 8, 16, 32, FramesPerBuffer}

NoHolder == "none"
NoSink == 0
Sinks == 1..MaxSinks
NoF32 == [k |-> "none", s |-> 0, m |-> 0, e |-> 0]
Unlimited == 0 - 1

VARIABLES
  callback_data, \* the CallbackData behind the RwLock
  dataLock,      \* the RwLock: its writer (or NoHolder) and its readers
  cb,            \* the callback invocation in progress: position, buffers,
                 \* locals, and what it read when it started
  ncallbacks,    \* callback invocations started so far
  lastSet,       \* the argument of the last set_amplitude that returned
  steady,        \* the input and stored amplitude of every invocation so
                 \* far, while they have all been the same
  gui_input,     \* the sink in the Mutex<Option<..>>, or NoSink
  guiInputLock,  \* the thread holding that mutex, or NoHolder
  relay,         \* the relay thread: position and locals of its iteration,
                 \* and whether an iteration of it has found no sink
  relayLimit,    \* relay iterations still followed, or Unlimited
  queue,         \* per sink: the messages in its channel, oldest first
  nsinks,        \* set_gui_input calls so far
  terminate,     \* the AtomicBool handed to Receiver::new
  rx_closed,     \* the sinks whose receiving end has been dropped
  fifo,          \* the number of the relay's next message, and the range
                 \* the numbers are counted in
  taken,         \* the last message a consumer took: its sink and number
  duplex_stream, \* the Option<Stream>: "none", "started" or "stopped"
  started,       \* start_duplex_callback: what the device did, and what
                 \* the call returned
  teardown,      \* where Receiver::drop (and the Cat's drop after it) is
  rt,            \* a frequency, the request rendered for it and what the
                 \* reply parser makes of that
  gui,           \* the Gui: its frequency, wheel digit, amplitude and mute
                 \* flag, the last message it handled and what it passed
                 \* to GUIOutput::set_frequency
  buf            \* a callback invocation on a buffer of any number of
                 \* frames: the buffer, the amplitude and what the loop and
                 \* the division made of them

lifeVars == <<rx_closed, fifo, taken, duplex_stream, started, teardown, rt>>

restVars == <<gui, buf>>

receiverVars == <<callback_data, dataLock, cb, ncallbacks, lastSet, steady,
                  gui_input, guiInputLock, relay, relayLimit, queue, nsinks,
                  terminate, lifeVars, restVars>>

allVars == <<vars, receiverVars>>

NoSteady == [state |-> "none", in_buffer |-> <<>>, amplitude |-> NoF32]
Varied == [state |-> "varied", in_buffer |-> <<>>, amplitude |-> NoF32]

\* The callback when PortAudio is not in it.
CallbackIdle ==
  [pc |-> "idle", in_buffer |-> <<>>, out_buffer |-> <<>>,
   amplitude |-> NoF32, avg_waveform_amplitude |-> NoF32,
   min_amp |-> NoF32, max_amp |-> NoF32,
   stored |-> NoF32, afterSet |-> NoF32, before |-> NoF32]

NotStarted == [device |-> "none", result |-> "none"]
NoneTaken == [sink |-> NoSink, serial |-> 0]
NoRoundTrip == [pc |-> "none", f |-> U32Zero, text |-> <<>>, res |-> NoResult]
NoDigit == 0 - 1
NoFrequency == 0 - 1
NoMessage == [kind |-> "none", digit |-> NoDigit]
\* gui.rs:128-253  the fields of the Gui the messages change, before any
\* message: not muted, no wheel digit, nothing commanded.
NoGui ==
  [state |-> "none", frequency |-> 0, wheel_digit |-> NoDigit,
   amplitude |-> NoF32, muted |-> FALSE, handled |-> 0, last |-> NoMessage,
   before |-> 0, calls |-> 0, sent |-> NoFrequency, wrapped |-> FALSE]
NoBuffer ==
  [pc |-> "none", frames |-> 0, in_buffer |-> <<>>, amplitude |-> NoF32,
   out_buffer |-> <<>>, avg_waveform_amplitude |-> NoF32]

\* Message numbers all 0: the order of the messages is not followed.
Unnumbered == [range |-> 1, next |-> 0, refused |-> FALSE, late |-> 0]
\* Message numbers counted in SerialRange.
Numbered == [range |-> SerialRange, next |-> 0, refused |-> FALSE, late |-> 0]

\* The relay at the top of its loop.
RelayTop ==
  [pc |-> "top", target |-> NoSink, strength |-> NoF32, stamp |-> 0,
   skipped |-> FALSE]

\* receiver.rs:38-81  Receiver::new: the data of the callback, an empty sink
\* holder, the relay thread spawned; main.rs:867 terminate starts false.
ReceiverNew ==
  /\ callback_data = [amplitude |-> F32Zero(0),
                      avg_waveform_amplitude |-> F32Zero(0),
                      min_waveform_amplitude |-> F32Lit(100),
                      max_waveform_amplitude |-> F32Zero(0)]
  /\ dataLock = [writer |-> NoHolder, readers |-> {}]
  /\ cb = CallbackIdle
  /\ ncallbacks = 0
  /\ lastSet = NoF32
  /\ steady = NoSteady
  /\ guiInputLock = NoHolder
  /\ relay = RelayTop
  /\ queue = [s \in Sinks |-> <<>>]
  /\ terminate = FALSE
  /\ rx_closed = {}
  /\ taken = NoneTaken
  /\ started = NotStarted
  /\ teardown = "alive"

\* main.rs:872-886: the Cat and the receiver just constructed: no sink yet,
\* the audio stream not started.
Init ==
  /\ CatNew
  /\ ReceiverNew
  /\ gui_input = NoSink
  /\ nsinks = 0
  /\ relayLimit = Unlimited
  /\ duplex_stream = "none"
  /\ fifo = Unnumbered
  /\ rt = NoRoundTrip
  /\ gui = NoGui
  /\ buf = NoBuffer

\* The same once main.rs:890-894 have run: the GUI's sink registered, then
\* the duplex stream started.
StreamStarted ==
  /\ CatNew
  /\ ReceiverNew
  /\ gui_input = 1
  /\ nsinks = 1
  /\ relayLimit = MaxRelayRuns
  /\ duplex_stream = "started"
  /\ fifo = Unnumbered
  /\ rt = NoRoundTrip
  /\ gui = NoGui
  /\ buf = NoBuffer

\* main.rs:886-891  the receiver with the GUI's sink registered and the
\* stream not started, the messages numbered.
ChannelOpen ==
  /\ CatNew
  /\ ReceiverNew
  /\ gui_input = 1
  /\ nsinks = 1
  /\ relayLimit = Unlimited
  /\ duplex_stream = "none"
  /\ fifo = Numbered
  /\ rt = NoRoundTrip
  /\ gui = NoGui
  /\ buf = NoBuffer

\* receiver.rs:38-81  the receiver just constructed, before or after
\* main.rs:891 has registered the GUI's sink.
Constructed ==
  /\ CatNew
  /\ ReceiverNew
  /\ gui_input \in {NoSink, 1}
  /\ nsinks = (IF gui_input = NoSink THEN 0 ELSE 1)
  /\ relayLimit = Unlimited
  /\ duplex_stream = "none"
  /\ fifo = Unnumbered
  /\ rt = NoRoundTrip
  /\ gui = NoGui
  /\ buf = NoBuffer

\* A frequency about to be rendered, the Cat and the receiver at rest.
RoundTripStart ==
  /\ CatNew
  /\ ReceiverNew
  /\ gui_input = NoSink
  /\ nsinks = 0
  /\ relayLimit = Unlimited
  /\ duplex_stream = "none"
  /\ fifo = Unnumbered
  /\ rt \in {[NoRoundTrip EXCEPT !.pc = "start", !.f = f] :
               f \in RoundTripFrequencies}
  /\ gui = NoGui
  /\ buf = NoBuffer

(* ------------------------------- the lock ------------------------------ *)

\* std::sync::Mutex: lock() returns once no other thread holds the guard.
CatLockFree == catLock = NoThread

\* As GuardAfterSend, had the lock been taken for send_request alone.
GuardAfterSend_Dropped(t) == NoThread

\* cat.rs:42-45 with main.rs:875: transact runs on the &mut Cat of one guard,
\* so the thread that sent the request still holds the lock while it reads.
GuardAfterSend(t) == t

\* The guard is a temporary of the calling statement: dropped when the
\* operation has returned (or while its panic unwinds).
Unlocked(t) == IF catLock = t THEN NoThread ELSE catLock

(* ------------------------------- actions ------------------------------- *)

\* receiver.rs:153 unwraps what Cat::set_frequency returns: an Err panics the
\* calling thread. main.rs:875 hands the Err of get_frequency on with `?`.
CallerPanics(kind, res) == kind = "set" /\ ~res.ok

\* The operation of thread t ends with res after the transport calls `done`
\* and the bytes `got`:
\* the guard is dropped and the caller gets the result, or panics with the
\* guard alive, which poisons the mutex.
Return(t, done, got, res) ==
  LET panics == CallerPanics(op[t].kind, res)
  IN  /\ pc' = [pc EXCEPT ![t] = IF panics THEN "panicked" ELSE "idle"]
      /\ poisoned' = (poisoned \/ panics)
      /\ catLock' = Unlocked(t)
      /\ returned' = [by |-> t, op |-> op[t], io |-> done, got |-> got,
                       res |-> res]
      /\ op' = [op EXCEPT ![t] = NoOp]
      /\ io' = [io EXCEPT ![t] = NoIo]
      /\ received' = [received EXCEPT ![t] = <<>>]
      /\ waited' = [waited EXCEPT ![t] = 0]
      /\ elapsed' = [elapsed EXCEPT ![t] = 0]
      /\ lastFailed' = (res.err \in ResponseErrors)

\* A thread takes the Mutex<Cat> to run one Cat operation. lock() on a
\* poisoned mutex returns Err, and every caller unwraps it.
Lock(t, o) ==
  /\ pc[t] = "idle"
  /\ nops < MaxOps
  /\ CatLockFree
  /\ nops' = nops + 1
  /\ op' = [op EXCEPT ![t] = [o EXCEPT !.afterFail = lastFailed]]
  /\ returned' = NoReturn
  /\ IF poisoned
     THEN /\ pc' = [pc EXCEPT ![t] = "panicked"]
          /\ UNCHANGED catLock
     ELSE /\ pc' = [pc EXCEPT ![t] = "locked"]
          /\ catLock' = t
  /\ UNCHANGED <<received, io, waited, elapsed, poisoned, portOut, wire,
                 nreq, answered, lastFailed>>
  /\ UNCHANGED receiverVars

\* main.rs:875  arc_mutex_cat.lock().unwrap().get_frequency()
CallGetFrequency(t) ==
  Lock(t, [NoOp EXCEPT !.kind = "get", !.request = GetFrequencyRequest])

\* receiver.rs:152-154  self.cat.lock().unwrap().set_frequency(frequency_hz)
CallSetFrequency(t) ==
  \E f \in SetFrequencies :
    Lock(t, [NoOp EXCEPT !.kind = "set", !.freq = f,
                         !.request = SetFrequencyRequest(f)])

\* cat.rs:42  transact(request), for any request
CallTransact(t) ==
  \E r \in RawRequests :
    Lock(t, [NoOp EXCEPT !.kind = "raw", !.request = r])

\* As AwaitsReply, had set_frequency gone through transact.
AwaitsReply_Always(kind) == TRUE

\* cat.rs:43-44, 118-119  transact (under get_frequency too) goes on to
\* receive_response after send_request; set_frequency returns instead.
AwaitsReply(kind) == kind # "set"

\* cat.rs:47-58  send_request, and what its caller does with the result:
\* transact (cat.rs:43) and set_frequency (cat.rs:118) return its error;
\* transact goes on to receive_response, set_frequency returns Ok. The radio
\* is sent a request when all of it was written; it answers set_frequency's
\* with nothing (the QDX's behaviour for a frequency set).
SendRequest(t) ==
  /\ pc[t] = "locked"
  /\ LET request == op[t].request
     IN  IF RequestTooShort(request)
         THEN /\ Return(t, io[t], <<>>, Err("MalformedRequest"))
              /\ UNCHANGED <<portOut, wire, nreq, answered, nops>>
         ELSE \E wr \in WriteResults(Len(request)) :
                LET sent == WriteOutcome(request, wr)
                    done == [io[t] EXCEPT !.writes = @ + 1,
                                          !.wrote = IF wr.ok THEN wr.n ELSE -1]
                    asks == wr.ok /\ wr.n = Len(request) /\ op[t].kind # "set"
                    reads == AwaitsReply(op[t].kind)
                IN  /\ portOut' = IF wr.ok THEN SubSeq(request, 1, wr.n)
                                  ELSE portOut
                    /\ nreq' = IF asks THEN nreq + 1 ELSE nreq
                    /\ IF ~sent.ok \/ ~reads
                       THEN Return(t, done, <<>>, sent)
                       ELSE /\ pc' = [pc EXCEPT ![t] = "receiving"]
                            /\ op' = [op EXCEPT ![t].seq = nreq + 1]
                            /\ io' = [io EXCEPT ![t] = done]
                            /\ catLock' = GuardAfterSend(t)
                            /\ received' = [received EXCEPT ![t] = <<>>]
                            /\ waited' = [waited EXCEPT ![t] = 0]
                            /\ elapsed' = [elapsed EXCEPT ![t] = 0]
                            /\ UNCHANGED <<poisoned, lastFailed, returned>>
                    /\ UNCHANGED <<wire, answered, nops>>
  /\ UNCHANGED receiverVars

\* cat.rs:104-114 for get_frequency, cat.rs:44 for transact: what the
\* operation returns once receive_response has returned `transacted`.
Completed(kind, transacted) ==
  IF kind = "get" THEN GetFrequencyOutcome(transacted) ELSE transacted

\* The bytes the read loop takes from a non-empty input buffer before it can
\* block or end: up to and including the first terminator, or all of them.
FirstTerminator(w) ==
  IF \E i \in 1..Len(w) : w[i].b = Terminator
  THEN CHOOSE i \in 1..Len(w) :
         /\ w[i].b = Terminator
         /\ \A k \in 1..(i - 1) : w[k].b # Terminator
  ELSE 0

\* As Readable, had the loop gone on reading past a terminator for as long
\* as bytes are there.
Readable_All(w) == Len(w)

Readable(w) == IF FirstTerminator(w) = 0 THEN Len(w) ELSE FirstTerminator(w)

\* cat.rs:65-76  the serial reads that return a byte at once: each byte is
\* pushed, and the loop ends with the terminator. The reads of bytes already
\* in the input buffer are one step: nothing another thread or the radio
\* does in between changes what they return.
ReadBytes(t) ==
  /\ pc[t] = "receiving"
  /\ wire # <<>>
  /\ LET n == Readable(wire)
         got == received[t] \o SubSeq(wire, 1, n)
         done == [io[t] EXCEPT !.reads = @ + n]
     IN  /\ wire' = SubSeq(wire, n + 1, Len(wire))
         /\ IF got[Len(got)].b = Terminator
            THEN Return(t, done, got,
                        Completed(op[t].kind, ReceiveOutcome(op[t].request, got)))
            ELSE /\ received' = [received EXCEPT ![t] = got]
                 /\ io' = [io EXCEPT ![t] = done]
                 /\ waited' = [waited EXCEPT ![t] = 0]
                 /\ UNCHANGED <<pc, op, elapsed, catLock, poisoned, lastFailed,
                                returned>>
  /\ UNCHANGED <<portOut, nreq, answered, nops>>
  /\ UNCHANGED receiverVars

\* cat.rs:77-79  one serial read that times out: no byte for the whole
\* timeout of that read.
ReadTimeout(t) ==
  /\ pc[t] = "receiving"
  /\ wire = <<>>
  /\ waited[t] = TimeoutTicks
  /\ Return(t, [io[t] EXCEPT !.reads = @ + 1], received[t],
            Completed(op[t].kind, Err("NoResponse")))
  /\ UNCHANGED <<portOut, wire, nreq, answered, nops>>
  /\ UNCHANGED receiverVars

\* Time passes while a read is blocked; a read blocked for the whole timeout
\* returns before more time passes.
Blocked(t) == pc[t] = "receiving" /\ wire = <<>>

Tick ==
  /\ \E t \in Threads : Blocked(t)
  /\ \A t \in Threads : Blocked(t) => waited[t] < TimeoutTicks
  /\ waited' = [t \in Threads |-> IF Blocked(t) THEN waited[t] + 1 ELSE waited[t]]
  /\ elapsed' = [t \in Threads |->
                   IF Blocked(t) /\ elapsed[t] <= TimeoutTicks
                   THEN elapsed[t] + 1 ELSE elapsed[t]]
  /\ UNCHANGED <<pc, op, received, io, catLock, poisoned, portOut, wire, nreq,
                 answered, nops, lastFailed, returned>>
  /\ UNCHANGED receiverVars

\* The radio answers a request it has not answered yet, at any later time
\* and in the order of the requests: once it has answered one it answers no
\* earlier one. A reply is modelled while a thread reads or may yet read.
MayBeRead == nops < MaxOps \/ \E t \in Threads : pc[t] = "receiving"

Unanswered == {k \in 1..nreq : \A a \in answered : a < k}

RadioReply ==
  /\ MayBeRead
  /\ \E k \in Unanswered : \E reply \in RadioReplies :
       /\ wire' = wire \o Tagged(reply, k)
       /\ answered' = answered \cup {k}
  /\ UNCHANGED <<pc, op, received, io, waited, elapsed, catLock, poisoned,
                 portOut, nreq, nops, lastFailed, returned>>
  /\ UNCHANGED receiverVars

Next ==
  \/ \E t \in Threads : CallGetFrequency(t)
  \/ \E t \in Threads : CallSetFrequency(t)
  \/ \E t \in Threads : CallTransact(t)
  \/ \E t \in Threads : SendRequest(t)
  \/ \E t \in Threads : ReadBytes(t)
  \/ \E t \in Threads : ReadTimeout(t)
  \/ Tick
  \/ RadioReply

Spec == Init /\ [][Next]_allVars

(* ------------------------- the audio callback -------------------------- *)

\* std::sync::RwLock: write() returns once nobody holds the lock, read()
\* once no writer does.
DataLockFree == dataLock.writer = NoHolder /\ dataLock.readers = {}
DataLockReadable == dataLock.writer = NoHolder

\* receiver.rs:158  callback_data.amplitude = amplitude
StoredAmplitude(amplitude) == amplitude

\* receiver.rs:156-159  set_amplitude: the write lock is taken, the field
\* assigned, the guard dropped on return.
SetAmplitude ==
  /\ DataLockFree
  /\ \E a \in SetAmplitudes :
       /\ callback_data' = [callback_data EXCEPT !.amplitude = StoredAmplitude(a)]
       /\ lastSet' = a
  /\ UNCHANGED <<dataLock, cb, ncallbacks, steady, gui_input, guiInputLock,
                 relay, relayLimit, queue, nsinks, terminate>>
  /\ UNCHANGED vars
  /\ UNCHANGED restVars
  /\ UNCHANGED lifeVars

\* receiver.rs:94  callback_data.amplitude * AMPLITUDE_GAIN
CallbackAmplitude(stored) == F32Mul(stored, AMPLITUDE_GAIN)

\* What is known of the inputs of all invocations once one more has started
\* with input `in` and stored amplitude `stored`.
SteadyAfter(in, stored) ==
  LET now == [state |-> "steady", in_buffer |-> in, amplitude |-> stored]
  IN  IF steady = NoSteady \/ steady = now THEN now ELSE Varied

\* As ReadGuardAtLoop, had the read guard lived to the end of the closure.
ReadGuardAtLoop_Kept(t) == {t}

\* receiver.rs:95  drop(callback_data): the callback's read guard is gone
\* when line 97 is reached.
ReadGuardAtLoop(t) == {}

\* receiver.rs:90-95, 133-134  PortAudio calls the callback of the started
\* stream with an input buffer; the callback takes the read lock, computes
\* its amplitude from the stored one and drops the guard.
CallbackBegin ==
  /\ cb.pc = "idle"
  /\ duplex_stream = "started"
  /\ ncallbacks < MaxCallbacks
  /\ DataLockReadable
  /\ \E in \in InBuffers :
       /\ cb' = [CallbackIdle EXCEPT
                   !.pc = "loop",
                   !.in_buffer = in,
                   !.amplitude = CallbackAmplitude(callback_data.amplitude),
                   !.stored = callback_data.amplitude,
                   !.afterSet = lastSet]
       /\ steady' = SteadyAfter(in, callback_data.amplitude)
  /\ ncallbacks' = ncallbacks + 1
  /\ dataLock' = [dataLock EXCEPT !.readers = @ \cup ReadGuardAtLoop("audio")]
  /\ UNCHANGED <<callback_data, lastSet, gui_input, guiInputLock,
                 relay, relayLimit, queue, nsinks, terminate>>
  /\ UNCHANGED vars
  /\ UNCHANGED restVars
  /\ UNCHANGED lifeVars

\* As LoopAmplitude, had the loop read the stored amplitude for its samples.
LoopAmplitude_Reread(local, stored) == CallbackAmplitude(stored)

\* receiver.rs:103  the loop multiplies by the local `amplitude` of line 94.
LoopAmplitude(local, stored) == local

\* receiver.rs:97-99  the loop's accumulators before the first sample
LoopStart ==
  [out_buffer |-> <<>>, avg_waveform_amplitude |-> F32Zero(0),
   min_amp |-> F32Lit(100), max_amp |-> F32Zero(0)]

\* receiver.rs:103-111  the body of the loop for one idx (counted from 1)
LoopStep(in_buffer, amplitude, idx, acc) ==
  LET sample == F32Mul(in_buffer[idx], amplitude)
  IN  [out_buffer |-> Append(acc.out_buffer, sample),
       avg_waveform_amplitude |->
         F32Add(acc.avg_waveform_amplitude, F32Abs(sample)),
       min_amp |-> IF F32Lt(sample, acc.min_amp) THEN sample ELSE acc.min_amp,
       max_amp |-> IF F32Gt(sample, acc.max_amp) THEN sample ELSE acc.max_amp]

\* receiver.rs:100  for idx in 0..frames * 2: the body for lo, .., hi in
\* that order: the first half of the range, then (once that is computed)
\* the second.
RECURSIVE SampleLoop(_, _, _, _, _)
SampleLoop(in_buffer, amplitude, lo, hi, acc) ==
  IF lo > hi THEN acc
  ELSE IF lo = hi THEN LoopStep(in_buffer, amplitude, lo, acc)
  ELSE LET mid == (lo + hi) \div 2
           first == SampleLoop(in_buffer, amplitude, lo, mid, acc)
       IN  IF first.out_buffer = <<>> THEN acc
           ELSE SampleLoop(in_buffer, amplitude, mid + 1, hi, first)

\* receiver.rs:114  avg_waveform_amplitude /= 128.0
AverageDivisor == F32Lit(128)

\* receiver.rs:97-114  what the callback has computed when its loop is over
\* and the sum divided.
LoopOutcome(in_buffer, amplitude) ==
  LET acc == SampleLoop(in_buffer, amplitude, 1, Len(in_buffer), LoopStart)
  IN  [acc EXCEPT !.avg_waveform_amplitude = F32Div(@, AverageDivisor)]

\* The amplitudes a callback can compute at line 94, and LoopOutcome on
\* every input it can meet (a table, so that it is computed once).
LoopAmplitudes ==
  {CallbackAmplitude(a) : a \in SetAmplitudes \cup {F32Zero(0)}}
LoopOutcomes ==
  [in \in InBuffers, a \in LoopAmplitudes |-> LoopOutcome(in, a)]

\* receiver.rs:97-114  the loop over the frames * 2 samples and the division
\* of the sum; nothing shared is touched, so it is one step.
CallbackLoop ==
  /\ cb.pc = "loop"
  /\ LET done == LoopOutcomes[cb.in_buffer,
                              LoopAmplitude(cb.amplitude, callback_data.amplitude)]
     IN  cb' = [cb EXCEPT
                  !.pc = "looped",
                  !.out_buffer = done.out_buffer,
                  !.avg_waveform_amplitude = done.avg_waveform_amplitude,
                  !.min_amp = done.min_amp,
                  !.max_amp = done.max_amp]
  /\ UNCHANGED <<callback_data, dataLock, ncallbacks, lastSet, steady,
                 gui_input, guiInputLock, relay, relayLimit, queue, nsinks,
                 terminate>>
  /\ UNCHANGED vars
  /\ UNCHANGED restVars
  /\ UNCHANGED lifeVars

\* As WriteGuard, had the callback updated the data without the lock.
WriteGuard_Dropped(t) == NoHolder

\* receiver.rs:115  move_clone_callback_data.write().unwrap(): the guard
\* lives until the closure returns.
WriteGuard(t) == t

\* receiver.rs:115  the callback takes the write lock.
CallbackWriteLock ==
  /\ cb.pc = "looped"
  /\ DataLockFree
  /\ dataLock' = [dataLock EXCEPT !.writer = WriteGuard("audio")]
  /\ cb' = [cb EXCEPT !.pc = "write",
                      !.before = callback_data.avg_waveform_amplitude]
  /\ UNCHANGED <<callback_data, ncallbacks, lastSet, steady, gui_input,
                 guiInputLock, relay, relayLimit, queue, nsinks, terminate>>
  /\ UNCHANGED vars
  /\ UNCHANGED restVars
  /\ UNCHANGED lifeVars

\* receiver.rs:116-117  the divisor of both halves of the update
SmoothingDivisor == F32Lit(40)

\* receiver.rs:116  avg_waveform_amplitude -= avg_waveform_amplitude / 40.0
CallbackDecay ==
  /\ cb.pc = "write"
  /\ callback_data' =
       [callback_data EXCEPT !.avg_waveform_amplitude =
          F32Sub(@, F32Div(@, SmoothingDivisor))]
  /\ cb' = [cb EXCEPT !.pc = "decayed"]
  /\ UNCHANGED <<dataLock, ncallbacks, lastSet, steady, gui_input,
                 guiInputLock, relay, relayLimit, queue, nsinks, terminate>>
  /\ UNCHANGED vars
  /\ UNCHANGED restVars
  /\ UNCHANGED lifeVars

\* receiver.rs:117  avg_waveform_amplitude += avg_waveform_amplitude / 40.0
\* (the right-hand one the local of the loop)
CallbackAccumulate ==
  /\ cb.pc = "decayed"
  /\ callback_data' =
       [callback_data EXCEPT !.avg_waveform_amplitude =
          F32Add(@, F32Div(cb.avg_waveform_amplitude, SmoothingDivisor))]
  /\ cb' = [cb EXCEPT !.pc = "updated"]
  /\ UNCHANGED <<dataLock, ncallbacks, lastSet, steady, gui_input,
                 guiInputLock, relay, relayLimit, queue, nsinks, terminate>>
  /\ UNCHANGED vars
  /\ UNCHANGED restVars
  /\ UNCHANGED lifeVars

\* receiver.rs:118-126  the minimum and maximum are widened, the closure
\* returns pa::Continue and its write guard is dropped.
CallbackReturn ==
  /\ cb.pc = "updated"
  /\ callback_data' =
       [callback_data EXCEPT
          !.min_waveform_amplitude =
            IF F32Lt(cb.min_amp, @) THEN cb.min_amp ELSE @,
          !.max_waveform_amplitude =
            IF F32Gt(cb.max_amp, @) THEN cb.max_amp ELSE @]
  /\ dataLock' = [dataLock EXCEPT
                    !.writer = IF @ = "audio" THEN NoHolder ELSE @]
  /\ cb' = CallbackIdle
  /\ UNCHANGED <<ncallbacks, lastSet, steady, gui_input, guiInputLock, relay,
                 relayLimit, queue, nsinks, terminate>>
  /\ UNCHANGED vars
  /\ UNCHANGED restVars
  /\ UNCHANGED lifeVars

(* --------------------------- the relay thread -------------------------- *)

\* As Registered, had set_gui_input kept a sink already registered.
Registered_KeepFirst(old, new) == IF old = NoSink THEN new ELSE old

\* receiver.rs:147  *self.gui_input.lock().unwrap() = Some(gui_input)
Registered(old, new) == new

\* receiver.rs:146-148  set_gui_input with a sink not handed over before.
SetGuiInput ==
  /\ nsinks < MaxSinks
  /\ guiInputLock = NoHolder
  /\ gui_input' = Registered(gui_input, nsinks + 1)
  /\ nsinks' = nsinks + 1
  /\ UNCHANGED <<callback_data, dataLock, cb, ncallbacks, lastSet, steady,
                 guiInputLock, relay, relayLimit, queue, terminate>>
  /\ UNCHANGED vars
  /\ UNCHANGED restVars
  /\ UNCHANGED lifeVars

\* As ExitRequested, had the relay not looked at the flag.
ExitRequested_Ignored(flag) == FALSE

\* receiver.rs:54  if terminate.load(Ordering::SeqCst)
ExitRequested(flag) == flag

\* receiver.rs:54-58  the top of the loop: the thread ends when terminate is
\* set, and sleeps 100 ms otherwise.
RelayLoop ==
  /\ relay.pc = "top"
  /\ relayLimit # 0
  /\ relay' = [relay EXCEPT
                 !.pc = IF ExitRequested(terminate) THEN "exited" ELSE "slept"]
  /\ relayLimit' = IF relayLimit > 0 THEN relayLimit - 1 ELSE relayLimit
  /\ UNCHANGED <<callback_data, dataLock, cb, ncallbacks, lastSet, steady,
                 gui_input, guiInputLock, queue, nsinks, terminate>>
  /\ UNCHANGED vars
  /\ UNCHANGED restVars
  /\ UNCHANGED lifeVars

\* As SenderOf, had the relay fallen back on a first sink when none is set.
SenderOf_Default(holder) == IF holder = NoSink THEN 1 ELSE holder

\* receiver.rs:60  match sender.as_deref()
SenderOf(holder) == holder

\* receiver.rs:59-62  the relay locks the sink holder; with no sink the
\* iteration ends there and the guard is dropped, with one the guard stays
\* alive to the end of the iteration.
RelayWake ==
  /\ relay.pc = "slept"
  /\ guiInputLock = NoHolder
  /\ LET sender == SenderOf(gui_input)
     IN  IF sender = NoSink
         THEN /\ relay' = [RelayTop EXCEPT !.skipped = TRUE]
              /\ UNCHANGED guiInputLock
         ELSE /\ relay' = [relay EXCEPT !.pc = "matched", !.target = sender]
              /\ guiInputLock' = "relay"
  /\ UNCHANGED <<callback_data, dataLock, cb, ncallbacks, lastSet, steady,
                 gui_input, relayLimit, queue, nsinks, terminate>>
  /\ UNCHANGED vars
  /\ UNCHANGED restVars
  /\ UNCHANGED lifeVars

\* receiver.rs:64  thread_callback_data.read().unwrap()
RelayReadLock ==
  /\ relay.pc = "matched"
  /\ DataLockReadable
  /\ dataLock' = [dataLock EXCEPT !.readers = @ \cup {"relay"}]
  /\ relay' = [relay EXCEPT !.pc = "reading"]
  /\ UNCHANGED <<callback_data, cb, ncallbacks, lastSet, steady, gui_input,
                 guiInputLock, relayLimit, queue, nsinks, terminate>>
  /\ UNCHANGED vars
  /\ UNCHANGED restVars
  /\ UNCHANGED lifeVars

\* As ReadGuardAtSend, had the relay kept its read guard while it sends.
ReadGuardAtSend_Kept(t) == {t}

\* receiver.rs:67  drop(callback_data): the relay's read guard is gone when
\* line 69 is reached.
ReadGuardAtSend(t) == {}

\* receiver.rs:65-67  the strength is copied and the read guard dropped.
RelayRead ==
  /\ relay.pc = "reading"
  /\ relay' = [relay EXCEPT !.pc = "sending",
                            !.strength = callback_data.avg_waveform_amplitude,
                            !.stamp = nsinks]
  /\ dataLock' = [dataLock EXCEPT
                    !.readers = (@ \ {"relay"}) \cup ReadGuardAtSend("relay")]
  /\ UNCHANGED <<callback_data, cb, ncallbacks, lastSet, steady, gui_input,
                 guiInputLock, relayLimit, queue, nsinks, terminate>>
  /\ UNCHANGED vars
  /\ UNCHANGED restVars
  /\ UNCHANGED lifeVars

\* GUIInputMessage::SignalStrength(strength), and with it the number of
\* sinks registered when the strength was read, and the message's number.
SignalStrength(strength, stamp, serial) ==
  [strength |-> strength, stamp |-> stamp, serial |-> serial]

\* As SendReturns, had the channel no bound.
SendReturns_Unbounded(channel) == TRUE

\* std::sync::mpsc::SyncSender::send returns once the message is in the
\* channel: it blocks while the channel holds ChannelCapacity messages.
SendReturns(channel) == Len(channel) < ChannelCapacity

\* As Disconnected, had send gone on waiting for a receiving end that is
\* gone.
Disconnected_Never(s) == FALSE

\* std::sync::mpsc::SyncSender::send returns Err(SendError) at once, also
\* from a send that is blocked, when the receiving end has been dropped.
Disconnected(s) == s \in rx_closed

\* receiver.rs:69-71  gui_input.send(..), its result discarded by `let _ =`
\* (fifo.refused remembers that a send returned Err, fifo.late counts, up to
\* 2, the messages put in a channel with terminate set), and the end of the
\* iteration, where the guard of the sink holder is dropped.
RelaySend ==
  /\ relay.pc = "sending"
  /\ IF Disconnected(relay.target)
     THEN /\ fifo' = [fifo EXCEPT !.refused = TRUE]
          /\ UNCHANGED queue
     ELSE /\ SendReturns(queue[relay.target])
          /\ queue' = [queue EXCEPT ![relay.target] =
                         Append(@, SignalStrength(relay.strength, relay.stamp,
                                                  fifo.next))]
          /\ fifo' = [fifo EXCEPT
                        !.next = (@ + 1) % fifo.range,
                        !.late = IF terminate THEN Min2(@ + 1, 2) ELSE @]
  /\ guiInputLock' = NoHolder
  /\ relay' = [RelayTop EXCEPT !.skipped = relay.skipped]
  /\ UNCHANGED <<callback_data, dataLock, cb, ncallbacks, lastSet, steady,
                 gui_input, relayLimit, nsinks, terminate>>
  /\ UNCHANGED vars
  /\ UNCHANGED restVars
  /\ UNCHANGED <<rx_closed, taken, duplex_stream, started, teardown, rt>>

\* gui.rs:321  gui_input_rx.recv_timeout(..) takes the oldest message of a
\* sink's channel.
Consume ==
  /\ \E s \in Sinks \ rx_closed :
       /\ queue[s] # <<>>
       /\ queue' = [queue EXCEPT ![s] = Tail(@)]
       /\ taken' = [sink |-> s, serial |-> Head(queue[s]).serial]
  /\ UNCHANGED <<callback_data, dataLock, cb, ncallbacks, lastSet, steady,
                 gui_input, guiInputLock, relay, relayLimit, nsinks, terminate>>
  /\ UNCHANGED vars
  /\ UNCHANGED restVars
  /\ UNCHANGED <<rx_closed, fifo, duplex_stream, started, teardown, rt>>

\* The receiver with its audio stream running: the GUI sets amplitudes,
\* PortAudio calls the callback, the relay reads the level and the GUI
\* thread takes its messages.
AudioNext ==
  \/ SetAmplitude
  \/ CallbackBegin
  \/ CallbackLoop
  \/ CallbackWriteLock
  \/ CallbackDecay
  \/ CallbackAccumulate
  \/ CallbackReturn
  \/ RelayLoop
  \/ RelayWake
  \/ RelayReadLock
  \/ RelayRead
  \/ RelaySend
  \/ Consume

AudioSpec == StreamStarted /\ [][AudioNext]_allVars

\* The receiver between its construction and the start of the stream: sinks
\* are registered, the relay runs, the GUI thread takes messages or not.
RelayNext ==
  \/ SetGuiInput
  \/ RelayLoop
  \/ RelayWake
  \/ RelayReadLock
  \/ RelayRead
  \/ RelaySend
  \/ Consume

RelaySpec == Init /\ [][RelayNext]_allVars

(* ----------------------- the life of the receiver ---------------------- *)

\* receiver.rs:129-140  what start_duplex_callback leaves in duplex_stream
\* and returns, by what the device did: the stream is stored once started;
\* a failure to start is returned by the `?` of line 133; a rejected open is
\* logged and Ok(()) returned.
StartOutcome(device) ==
  IF device = "starts" THEN [stream |-> "started", result |-> "ok"]
  ELSE IF device = "start_fails" THEN [stream |-> "none", result |-> "start_failed"]
  ELSE [stream |-> "none", result |-> "ok"]

\* receiver.rs:86-142  start_duplex_callback, called once (main.rs:894).
StartDuplexCallback ==
  /\ started = NotStarted
  /\ teardown = "alive"
  /\ \E device \in DeviceOutcomes :
       /\ started' = [device |-> device, result |-> StartOutcome(device).result]
       /\ duplex_stream' = StartOutcome(device).stream
  /\ UNCHANGED <<callback_data, dataLock, cb, ncallbacks, lastSet, steady,
                 gui_input, guiInputLock, relay, relayLimit, queue, nsinks,
                 terminate>>
  /\ UNCHANGED vars
  /\ UNCHANGED restVars
  /\ UNCHANGED <<rx_closed, fifo, taken, teardown, rt>>

\* main.rs:867  the AtomicBool is shared with whoever made it: it is set by
\* its owner (no line of the repository stores to it).
SetTerminate ==
  /\ ~terminate
  /\ terminate' = TRUE
  /\ UNCHANGED <<callback_data, dataLock, cb, ncallbacks, lastSet, steady,
                 gui_input, guiInputLock, relay, relayLimit, queue, nsinks>>
  /\ UNCHANGED vars
  /\ UNCHANGED restVars
  /\ UNCHANGED lifeVars

\* gui.rs:314-330  the thread that owns gui_input_rx ends and the receiving
\* end is dropped, with the messages still in the channel.
CloseSink ==
  /\ \E s \in Sinks \ rx_closed :
       /\ s <= nsinks
       /\ rx_closed' = rx_closed \cup {s}
       /\ queue' = [queue EXCEPT ![s] = <<>>]
  /\ UNCHANGED <<callback_data, dataLock, cb, ncallbacks, lastSet, steady,
                 gui_input, guiInputLock, relay, relayLimit, nsinks, terminate>>
  /\ UNCHANGED vars
  /\ UNCHANGED restVars
  /\ UNCHANGED <<fifo, taken, duplex_stream, started, teardown, rt>>

\* receiver.rs:164  self.duplex_stream.as_mut().unwrap().stop(): the stream
\* is stopped (the result logged); unwrap panics on None, and the rest of
\* drop is not run.
DropStop ==
  /\ teardown = "alive"
  /\ IF duplex_stream = "none"
     THEN /\ teardown' = "panicked"
          /\ UNCHANGED duplex_stream
     ELSE /\ teardown' = "stopped"
          /\ duplex_stream' = "stopped"
  /\ UNCHANGED <<callback_data, dataLock, cb, ncallbacks, lastSet, steady,
                 gui_input, guiInputLock, relay, relayLimit, queue, nsinks,
                 terminate>>
  /\ UNCHANGED vars
  /\ UNCHANGED restVars
  /\ UNCHANGED <<rx_closed, fifo, taken, started, rt>>

\* receiver.rs:166-167  the handle is taken and JoinHandle::join called.
DropJoin ==
  /\ teardown = "stopped"
  /\ teardown' = "joining"
  /\ UNCHANGED <<callback_data, dataLock, cb, ncallbacks, lastSet, steady,
                 gui_input, guiInputLock, relay, relayLimit, queue, nsinks,
                 terminate>>
  /\ UNCHANGED vars
  /\ UNCHANGED restVars
  /\ UNCHANGED <<rx_closed, fifo, taken, duplex_stream, started, rt>>

\* receiver.rs:167-169  join returns once the relay thread has ended.
DropJoined ==
  /\ teardown = "joining"
  /\ relay.pc = "exited"
  /\ teardown' = "joined"
  /\ UNCHANGED <<callback_data, dataLock, cb, ncallbacks, lastSet, steady,
                 gui_input, guiInputLock, relay, relayLimit, queue, nsinks,
                 terminate>>
  /\ UNCHANGED vars
  /\ UNCHANGED restVars
  /\ UNCHANGED <<rx_closed, fifo, taken, duplex_stream, started, rt>>

\* cat.rs:123-128  the Receiver's fields are dropped after its drop has
\* returned, and the Cat with the last Arc of it: the serial port is
\* flushed, then closed.
CatDrop ==
  /\ teardown = "joined"
  /\ teardown' = "flushed"
  /\ UNCHANGED <<callback_data, dataLock, cb, ncallbacks, lastSet, steady,
                 gui_input, guiInputLock, relay, relayLimit, queue, nsinks,
                 terminate>>
  /\ UNCHANGED vars
  /\ UNCHANGED restVars
  /\ UNCHANGED <<rx_closed, fifo, taken, duplex_stream, started, rt>>

\* A step of the relay thread.
RelayStep ==
  \/ RelayLoop
  \/ RelayWake
  \/ RelayReadLock
  \/ RelayRead
  \/ RelaySend

\* The receiver from its construction to its drop: the stream is started
\* or not, the relay runs, the consumer takes messages or goes away, the
\* flag is set, the receiver is dropped.
LifeNext ==
  \/ StartDuplexCallback
  \/ SetTerminate
  \/ CloseSink
  \/ DropStop
  \/ DropJoin
  \/ DropJoined
  \/ CatDrop
  \/ RelayLoop
  \/ RelayWake
  \/ RelayReadLock
  \/ RelayRead
  \/ RelaySend
  \/ Consume

LifeSpec == Constructed /\ [][LifeNext]_allVars

\* The same, both threads being scheduled for as long as they can run: the
\* relay thread (receiver.rs:52-73), and the GUI thread (gui.rs:314-330),
\* which, while it lives, polls its channel every 250 ms and passes each
\* message on through a channel without bound.
\* A join returns once the thread joined has ended (receiver.rs:167).
LifeLiveSpec ==
  LifeSpec /\ WF_allVars(RelayStep) /\ WF_allVars(Consume)
           /\ WF_allVars(DropJoined)

\* The relay and the consumer of one sink, the messages numbered.
ChannelNext ==
  \/ RelayLoop
  \/ RelayWake
  \/ RelayReadLock
  \/ RelayRead
  \/ RelaySend
  \/ Consume

ChannelSpec == ChannelOpen /\ [][ChannelNext]_allVars

(* ---------------------------- the round trip --------------------------- *)

\* cat.rs:118  the request set_frequency renders for the frequency.
RenderFrequency ==
  /\ rt.pc = "start"
  /\ rt' = [rt EXCEPT !.pc = "rendered", !.text = SetFrequencyRequest(rt.f)]
  /\ UNCHANGED <<callback_data, dataLock, cb, ncallbacks, lastSet, steady,
                 gui_input, guiInputLock, relay, relayLimit, queue, nsinks,
                 terminate>>
  /\ UNCHANGED vars
  /\ UNCHANGED restVars
  /\ UNCHANGED <<rx_closed, fifo, taken, duplex_stream, started, teardown>>

\* cat.rs:82-114  get_frequency given that text as the radio's reply to its
\* "FA;": receive_response's checks, then the regex and the parse.
ParseReply ==
  /\ rt.pc = "rendered"
  /\ rt' = [rt EXCEPT
              !.pc = "parsed",
              !.res = GetFrequencyOutcome(
                        ReceiveOutcome(GetFrequencyRequest, Tagged(rt.text, 1)))]
  /\ UNCHANGED <<callback_data, dataLock, cb, ncallbacks, lastSet, steady,
                 gui_input, guiInputLock, relay, relayLimit, queue, nsinks,
                 terminate>>
  /\ UNCHANGED vars
  /\ UNCHANGED restVars
  /\ UNCHANGED <<rx_closed, fifo, taken, duplex_stream, started, teardown>>

RoundTripNext ==
  \/ RenderFrequency
  \/ ParseReply

RoundTripSpec == RoundTripStart /\ [][RoundTripNext]_allVars



(* --------------------------- the whole receiver ------------------------ *)

\* main.rs:886-899  the receiver at work: the GUI's sink is registered and
\* start_duplex_callback has returned Ok, with the stream started (the relay
\* is then followed for MaxRelayRuns iterations) or, the device having
\* rejected it (receiver.rs:136-140), without a stream.
SystemRunning ==
  /\ CatNew
  /\ ReceiverNew
  /\ gui_input = 1
  /\ nsinks = 1
  /\ \/ duplex_stream = "started" /\ relayLimit = MaxRelayRuns
     \/ duplex_stream = "none" /\ relayLimit = Unlimited
  /\ fifo = Unnumbered
  /\ rt = NoRoundTrip
  /\ gui = NoGui
  /\ buf = NoBuffer

\* The threads of the running receiver: the control thread (main.rs:889-899,
\* which calls set_gui_input and, from the Gui's handlers, set_amplitude),
\* PortAudio's callback, the relay thread and the GUI thread.
SystemNext ==
  \/ SetAmplitude
  \/ SetGuiInput
  \/ CallbackBegin
  \/ CallbackLoop
  \/ CallbackWriteLock
  \/ CallbackDecay
  \/ CallbackAccumulate
  \/ CallbackReturn
  \/ RelayLoop
  \/ RelayWake
  \/ RelayReadLock
  \/ RelayRead
  \/ RelaySend
  \/ Consume

SystemSpec == SystemRunning /\ [][SystemNext]_allVars

\* The threads, and the threads each is waiting for in the state: the
\* holders of the lock it is about to take, or the consumer of the channel
\* it sends to.
SystemThreads == {"control", "audio", "relay", "gui"}

\* receiver.rs:93, 115, 157  read() waits for the writer, write() for the
\* writer and the readers.
ReadWaitsFor == {dataLock.writer} \ {NoHolder}
WriteWaitsFor == ({dataLock.writer} \ {NoHolder}) \cup dataLock.readers
\* receiver.rs:59, 147  lock() waits for the holder.
HolderWaitsFor == {guiInputLock} \ {NoHolder}

WaitsFor(t) ==
  CASE t = "control" ->
         \* gui.rs:396-473, main.rs:891: the thread holds the mutex of the
         \* Receiver, which no other thread takes, and in it takes the write
         \* lock (receiver.rs:157), the sink holder's mutex (receiver.rs:147)
         \* or the Cat's mutex (receiver.rs:153), which no other thread takes.
         WriteWaitsFor \cup HolderWaitsFor
    [] t = "audio" ->
         IF cb.pc = "idle" /\ duplex_stream = "started" THEN ReadWaitsFor
         ELSE IF cb.pc = "looped" THEN WriteWaitsFor
         ELSE {}
    [] t = "relay" ->
         IF relay.pc = "slept" THEN HolderWaitsFor
         ELSE IF relay.pc = "matched" THEN ReadWaitsFor
         ELSE IF /\ relay.pc = "sending"
                 /\ ~Disconnected(relay.target)
                 /\ ~SendReturns(queue[relay.target])
              THEN {"gui"}
         ELSE {}
    [] OTHER ->
         \* gui.rs:321-325: recv_timeout returns within 250 ms and the
         \* channel the message is passed on through has no bound.
         {}

\* Threads each of which waits for one of them.
Deadlocked(S) == S # {} /\ \A t \in S : WaitsFor(t) \cap S # {}

(* ---------------------- a buffer of any number of frames ---------------- *)

\* An input buffer of frames * 2 samples: silence, the square wave of
\* magnitude 0.5, or a ramp of 0.5, 1.0, 1.5, .. alternating in sign.
SilentSamples(n) == [i \in 1..n |-> F32Zero(0)]
ToneSamples(n) == [i \in 1..n |-> IF i % 2 = 1 THEN F32Half ELSE F32Neg(F32Half)]
RampSamples(n) ==
  [i \in 1..n |-> IF i % 2 = 1 THEN F32Mul(F32Lit(i), F32Half)
                  ELSE F32Neg(F32Mul(F32Lit(i), F32Half))]
BuffersOf(frames) ==
  {SilentSamples(frames * 2), ToneSamples(frames * 2), RampSamples(frames * 2)}

\* receiver.rs:90  PortAudio calls the callback with `frames` frames, the
\* stored amplitude being any of those set_amplitude is given.
BufferHanded ==
  /\ CatNew
  /\ ReceiverNew
  /\ gui_input = NoSink
  /\ nsinks = 0
  /\ relayLimit = Unlimited
  /\ duplex_stream = "started"
  /\ fifo = Unnumbered
  /\ rt = NoRoundTrip
  /\ gui = NoGui
  /\ \E frames \in BufferFrames : \E in \in BuffersOf(frames) :
     \E stored \in SetAmplitudes \cup {F32Half} :
       buf = [NoBuffer EXCEPT !.pc = "loop", !.frames = frames,
                              !.in_buffer = in,
                              !.amplitude = CallbackAmplitude(stored)]

\* receiver.rs:97-114  the loop over idx in 0..frames * 2 and the division
\* of the sum, for the buffer handed.
BufferLoop ==
  /\ buf.pc = "loop"
  /\ LET done == LoopOutcome(SubSeq(buf.in_buffer, 1, buf.frames * 2),
                             buf.amplitude)
     IN  buf' = [buf EXCEPT
                   !.pc = "looped",
                   !.out_buffer = done.out_buffer,
                   !.avg_waveform_amplitude = done.avg_waveform_amplitude]
  /\ UNCHANGED <<callback_data, dataLock, cb, ncallbacks, lastSet, steady,
                 gui_input, guiInputLock, relay, relayLimit, queue, nsinks,
                 terminate, gui>>
  /\ UNCHANGED vars
  /\ UNCHANGED lifeVars

BufferNext == BufferLoop

BufferSpec == BufferHanded /\ [][BufferNext]_allVars

(* -------------------------------- the Gui ------------------------------- *)

\* n as a u32, and whether n is not one (n is below 2^31 here).
WrapU32(n) == ((n \div Limb) % Limb) * Limb + (n % Limb)
WrapsU32(n) == n < 0 \/ n \div Limb >= Limb

\* gui.rs:392, 405  10_u32.pow(digit)
RECURSIVE Pow10(_)
Pow10(digit) == IF digit = 0 THEN 1 ELSE 10 * Pow10(digit - 1)

\* As WithinRange, had the test let the sum be 99999999.
WithinRange_Inclusive(sum) == sum <= MaxFrequency

\* gui.rs:393  self.frequency + pow < 99999999 (the sum a u32)
WithinRange(sum) == sum < MaxFrequency

\* gui.rs:406  self.frequency as i64 - pow as i64 >= 0
NotBelowZero(frequency, pow) == frequency - pow >= 0

\* As Commanded, had the Gui commanded the frequency before it changed it.
Commanded_Previous(old, new) == old

\* gui.rs:394-396, 407-409, 449-463  self.frequency is assigned, then handed
\* to set_frequency.
Commanded(old, new) == new

\* gui.rs:449-461  the frequency of a band
BandFrequency(metres) ==
  CASE metres = 80 -> 3573000
    [] metres = 60 -> 5357000
    [] metres = 40 -> 7074000
    [] metres = 30 -> 10136000
    [] metres = 20 -> 14074000
    [] metres = 17 -> 18100000
    [] metres = 15 -> 21074000
    [] metres = 12 -> 24915000
    [] metres = 11 -> 27255000
    [] metres = 10 -> 28180000
    [] OTHER -> 14074000

\* The Gui as a message finds it: the message and the frequency before it
\* are noted, no set_frequency made yet.
Handling(kind, digit) ==
  [gui EXCEPT !.handled = @ + 1,
              !.last = [kind |-> kind, digit |-> digit],
              !.before = gui.frequency,
              !.calls = 0]

\* The Gui g with the frequency f assigned and commanded.
Tuned(g, f) ==
  [g EXCEPT !.frequency = f,
            !.calls = @ + 1,
            !.sent = Commanded(g.frequency, f)]

\* gui.rs:390-401  increment_digit
IncrementDigit(g, digit) ==
  LET pow == Pow10(digit)
      sum == WrapU32(g.frequency + pow)
      wrapped == [g EXCEPT !.wrapped = @ \/ WrapsU32(g.frequency + pow)]
  IN  IF WithinRange(sum) THEN Tuned(wrapped, sum) ELSE wrapped

\* gui.rs:403-414  decrement_digit
DecrementDigit(g, digit) ==
  LET pow == Pow10(digit)
  IN  IF NotBelowZero(g.frequency, pow)
      THEN Tuned([g EXCEPT !.wrapped = @ \/ WrapsU32(g.frequency - pow)],
                 WrapU32(g.frequency - pow))
      ELSE g

\* gui.rs:87-306, main.rs:860-889  Gui::new with the frequency the radio
\* reported and the amplitude 1.0.
GuiBuilt ==
  /\ CatNew
  /\ ReceiverNew
  /\ gui_input = NoSink
  /\ nsinks = 0
  /\ relayLimit = Unlimited
  /\ duplex_stream = "none"
  /\ fifo = Unnumbered
  /\ rt = NoRoundTrip
  /\ buf = NoBuffer
  /\ gui \in {[NoGui EXCEPT !.state = "built", !.frequency = f,
                            !.amplitude = F32Lit(1)] :
                f \in GuiStartFrequencies}

\* What a message handler leaves alone but for the Gui and, through
\* set_amplitude, the stored amplitude.
GuiFrame ==
  /\ UNCHANGED <<dataLock, cb, ncallbacks, steady, gui_input, guiInputLock,
                 relay, relayLimit, queue, nsinks, terminate, buf>>
  /\ UNCHANGED vars
  /\ UNCHANGED lifeVars

\* A message is taken from the Gui's channel (gui.rs:417).
GuiReceives == gui.state = "built" /\ gui.handled < MaxGuiMessages

\* gui.rs:424-428  Message::SetAmplitude, with Receiver::set_amplitude
\* (receiver.rs:156-159)
GuiSetAmplitude ==
  /\ GuiReceives
  /\ DataLockFree
  /\ \E a \in SliderAmplitudes :
       /\ callback_data' = [callback_data EXCEPT !.amplitude = StoredAmplitude(a)]
       /\ lastSet' = a
       /\ gui' = [Handling("amplitude", NoDigit) EXCEPT !.amplitude = a]
  /\ GuiFrame

\* gui.rs:466-477  Message::ToggleMute, with Receiver::set_amplitude
GuiToggleMute ==
  /\ GuiReceives
  /\ DataLockFree
  /\ LET a == IF gui.muted THEN gui.amplitude ELSE F32Zero(0)
     IN  /\ callback_data' = [callback_data EXCEPT !.amplitude = StoredAmplitude(a)]
         /\ lastSet' = a
  /\ gui' = [Handling("mute", NoDigit) EXCEPT !.muted = ~gui.muted]
  /\ GuiFrame

\* gui.rs:439-442  Message::IncrementFrequencyDigit
GuiIncrementDigit ==
  /\ GuiReceives
  /\ \E digit \in GuiDigits :
       gui' = IncrementDigit([Handling("up", digit) EXCEPT !.wheel_digit = digit],
                             digit)
  /\ UNCHANGED <<callback_data, lastSet>>
  /\ GuiFrame

\* gui.rs:443-446  Message::DecrementFrequencyDigit
GuiDecrementDigit ==
  /\ GuiReceives
  /\ \E digit \in GuiDigits :
       gui' = DecrementDigit([Handling("down", digit) EXCEPT !.wheel_digit = digit],
                             digit)
  /\ UNCHANGED <<callback_data, lastSet>>
  /\ GuiFrame

\* gui.rs:429-433  Message::IncrementFrequencyWheel
GuiIncrementWheel ==
  /\ GuiReceives
  /\ gui' = IF gui.wheel_digit = NoDigit
            THEN Handling("wheel_up", NoDigit)
            ELSE IncrementDigit(Handling("wheel_up", gui.wheel_digit),
                                gui.wheel_digit)
  /\ UNCHANGED <<callback_data, lastSet>>
  /\ GuiFrame

\* gui.rs:434-438  Message::DecrementFrequencyWheel
GuiDecrementWheel ==
  /\ GuiReceives
  /\ gui' = IF gui.wheel_digit = NoDigit
            THEN Handling("wheel_down", NoDigit)
            ELSE DecrementDigit(Handling("wheel_down", gui.wheel_digit),
                                gui.wheel_digit)
  /\ UNCHANGED <<callback_data, lastSet>>
  /\ GuiFrame

\* gui.rs:447-465  Message::SetBandMetres
GuiSetBand ==
  /\ GuiReceives
  /\ \E metres \in BandMetres :
       gui' = Tuned(Handling("band", NoDigit), BandFrequency(metres))
  /\ UNCHANGED <<callback_data, lastSet>>
  /\ GuiFrame

\* gui.rs:416-483  message_handle, a message at a time.
GuiNext ==
  \/ GuiSetAmplitude
  \/ GuiToggleMute
  \/ GuiIncrementDigit
  \/ GuiDecrementDigit
  \/ GuiIncrementWheel
  \/ GuiDecrementWheel
  \/ GuiSetBand

GuiSpec == GuiBuilt /\ [][GuiNext]_allVars

(* ------------------------------- claims -------------------------------- *)

\* digits, padded on the left with zeros to `width` characters.
RECURSIVE ZeroPadded(_, _)
ZeroPadded(digits, width) ==
  IF Len(digits) >= width THEN digits
  ELSE ZeroPadded(<<"0">> \o digits, width)

\* a <= b for digit strings of one length (numeric order is lexicographic).
RECURSIVE DigitsLeq(_, _)
DigitsLeq(a, b) ==
  IF Len(a) = 0 THEN TRUE
  ELSE IF DigitVal(Head(a)) # DigitVal(Head(b))
       THEN DigitVal(Head(a)) < DigitVal(Head(b))
       ELSE DigitsLeq(Tail(a), Tail(b))

Finished(kind) == returned.op.kind = kind
InCat(t) == pc[t] \in {"locked", "receiving"}
WroteAll(o, i) == i.wrote = Len(o.request)

\* C1: when set_frequency(f) has written its request, the bytes on the line
\* are "FA", f as 11 zero-padded decimal digits, ";": 14 bytes.
C1_SetFrequencyWritesElevenDigits ==
  (Finished("set") /\ WroteAll(returned.op, returned.io)) =>
    /\ portOut = <<"F", "A">> \o ZeroPadded(FmtDisplayU32(returned.op.freq),
                                            FreqDigits) \o <<";">>
    /\ Len(portOut) = FreqDigits + 3

C3_MismatchedEchoFails ==
  LET request == returned.op.request
      response == Bytes(returned.got)
  IN  ( /\ returned.op.kind \in {"raw", "get"}
        /\ Len(response) >= MinResponseLen
        /\ response[Len(response)] = Terminator
        /\ response[1] # request[1] \/ response[2] # request[2] )
      => ~returned.res.ok

\* C4: get_frequency returns Ok only when the whole reply is "FA", exactly 11
\* decimal digits, ";".
C4_GetFrequencyOkOnlyForExactReply ==
  (Finished("get") /\ returned.res.ok) =>
    LET response == Bytes(returned.got)
    IN  /\ Len(response) = FreqDigits + 3
        /\ FaRegexMatchesAt(response, 1)

\* C5: a request shorter than 3 characters fails with the malformed-request
\* error, and neither a write nor a read of the transport is made for it.
C5_ShortRequestFailsWithoutIo ==
  /\ \A t \in Threads :
       (op[t].kind # "none" /\ Len(op[t].request) < MinRequestLen) =>
         (pc[t] # "receiving" /\ io[t] = NoIo)
  /\ (~Finished("none") /\ Len(returned.op.request) < MinRequestLen) =>
       /\ returned.res = Err("MalformedRequest")
       /\ returned.io = NoIo
       /\ returned.got = <<>>

\* transact has been given a request of two characters and has returned
C5_Witness ==
  /\ Finished("raw")
  /\ Len(returned.op.request) = MinRequestLen - 1
  /\ returned.res.err = "MalformedRequest"

\* C6: when the transport reports a count written other than the request's
\* length, the operation fails with the short-write error and no read of the
\* transport follows.
C6_ShortWriteFailsWithoutRead ==
  /\ \A t \in Threads :
       pc[t] = "receiving" => WroteAll(op[t], io[t])
  /\ (returned.io.wrote # -1 /\ ~WroteAll(returned.op, returned.io)) =>
       /\ returned.res = Err("ShortWrite")
       /\ returned.io.reads = 0
       /\ returned.got = <<>>

\* get_frequency's write of "FA;" has reported 2 bytes written
C6_Witness ==
  /\ Finished("get")
  /\ returned.io.wrote = Len(GetFrequencyRequest) - 1
  /\ returned.res.err = "ShortWrite"

\* C7: the response read has ended once the read timeout has passed since it
\* began without a terminator: no thread is still in receive_response later
\* than that, whatever the radio sends.
C7_ReceiveEndsWithinReadTimeout ==
  \A t \in Threads : pc[t] = "receiving" => elapsed[t] <= TimeoutTicks

\* C8: at most one thread is inside a Cat operation, and it holds the mutex
\* from before its request is written until its operation has returned.
C8_OneCatOperationAtATime ==
  /\ Cardinality({t \in Threads : InCat(t)}) <= 1
  /\ \A t \in Threads : InCat(t) => catLock = t

\* a thread is reading its response while another, idle, has yet to call
C8_Witness ==
  \E t, u \in Threads :
    /\ t # u
    /\ pc[t] = "receiving"
    /\ io[t].writes = 1
    /\ pc[u] = "idle"
    /\ nops < MaxOps

\* C9: the response returned for a transaction that follows one failed by the
\* radio's conduct holds no byte the radio sent in reply to an earlier
\* request.
C9_NextResponseHoldsNoLeftover ==
  ( /\ returned.op.kind \in {"raw", "get"}
    /\ returned.op.afterFail
    /\ returned.res.ok )
  => \A i \in 1..Len(returned.res.resp) :
       returned.res.resp[i].for >= returned.op.seq

\* C10: when the Cat fails a frequency-set request, Receiver::set_frequency
\* returns to its caller: the calling thread does not panic.
C10_SetFrequencyFailureReturned ==
  (Finished("set") /\ ~returned.res.ok) => pc[returned.by] = "idle"

(* ------------------------- claims: the receiver ------------------------ *)

\* The stored amplitudes a callback can read.
Gains == SetAmplitudes \cup {F32Zero(0)}

\* in_buffer with every sample multiplied by g.
Scaled(in_buffer, g) == [i \in 1..Len(in_buffer) |-> F32Mul(in_buffer[i], g)]

\* The sum of the magnitudes of samples lo, .., hi added to sum, in order.
RECURSIVE SumAbs(_, _, _, _)
SumAbs(samples, lo, hi, sum) ==
  IF lo > hi THEN sum
  ELSE IF lo = hi THEN F32Add(sum, F32Abs(samples[lo]))
  ELSE LET mid == (lo + hi) \div 2
           first == SumAbs(samples, lo, mid, sum)
       IN  IF first = NoF32 THEN sum
           ELSE SumAbs(samples, mid + 1, hi, first)

\* The mean magnitude of a buffer of samples.
MeanMagnitude(samples) ==
  F32Div(SumAbs(samples, 1, Len(samples), F32Zero(0)), F32Lit(Len(samples)))

\* Scaled and the mean magnitude of it for every input and every factor a
\* callback can meet (tables, so that they are computed once).
ScaledBy == [in \in InBuffers, g \in Gains \cup LoopAmplitudes |-> Scaled(in, g)]
MeanScaledBy == [in \in InBuffers, g \in Gains |-> MeanMagnitude(Scaled(in, g))]

SameSamples(a, b) == Len(a) = Len(b) /\ \A i \in 1..Len(a) : a[i] = b[i]

\* x is a number of [0.0, 1.0].
InUnitRange(x) ==
  IsFinite(x) /\ ~F32Lt(x, F32Zero(0)) /\ ~F32Gt(x, F32Lit(1))

\* a and b are the same value, or finite and less than |b| / 1024 apart.
F32Near(a, b) ==
  \/ a = b
  \/ /\ IsFinite(a)
     /\ IsFinite(b)
     /\ F32Lt(F32Abs(F32Sub(a, b)), F32Div(F32Abs(b), F32Lit(1024)))

\* The callback has run its loop and not yet returned.
LoopDone == cb.out_buffer # <<>>

\* The level as the callback has just updated it (lines 116-117 done).
LevelUpdated == cb.pc = "updated"

\* C11: the stored amplitude, and the amplitude a callback in progress
\* multiplies its samples by, are always within [0.0, 1.0].
C11_GainWithinUnitRange ==
  /\ InUnitRange(callback_data.amplitude)
  /\ cb.pc # "idle" => InUnitRange(cb.amplitude)

\* C12: when the loop of a callback is over, every output sample is the
\* input sample at its index multiplied by the stored amplitude the callback
\* read (one of [0.0, 1.0]), and by nothing else.
C12_OutputIsInputTimesGain ==
  (LoopDone /\ InUnitRange(cb.stored))
    => SameSamples(cb.out_buffer, ScaledBy[cb.in_buffer, cb.stored])

\* C13: a callback that started after set_amplitude(0) returned, with no
\* set_amplitude of another value since, writes only zeros, whatever its
\* input.
C13_ZeroGainSilencesOutput ==
  (LoopDone /\ IsZero(cb.afterSet) /\ IsZero(lastSet))
    => \A i \in 1..Len(cb.out_buffer) : IsZero(cb.out_buffer[i])

\* C14: a callback reads the stored amplitude once, before its loop: every
\* sample of its buffer is scaled by the amplitude it computed then, also
\* when set_amplitude runs meanwhile; and a callback that starts after
\* set_amplitude(g) returned has read g.
C14_AmplitudeReadOncePerCallback ==
  /\ LoopDone => SameSamples(cb.out_buffer, ScaledBy[cb.in_buffer, cb.amplitude])
  /\ (cb.pc # "idle" /\ cb.afterSet # NoF32)
       => /\ cb.stored = cb.afterSet
          /\ cb.amplitude = CallbackAmplitude(cb.afterSet)

\* C14 witness: set_amplitude has stored another value since a callback
\* read a non-zero one, and that callback has scaled its buffer.
C14_Witness ==
  /\ LoopDone
  /\ cb.afterSet # NoF32
  /\ ~IsZero(cb.stored)
  /\ callback_data.amplitude # cb.stored

\* 0.1 and 0.9, the smoothing factor of the claim and its complement.
TenthF32 == F32Div(F32Lit(1), F32Lit(10))
NineTenthsF32 == F32Div(F32Lit(9), F32Lit(10))

\* C15: a callback leaves the level at 0.9 times the level it found plus
\* 0.1 times the mean magnitude of its input scaled by the stored amplitude
\* (one of [0.0, 1.0]), to within rounding.
C15_LevelIsEmaWithFactorTenth ==
  (LevelUpdated /\ InUnitRange(cb.stored)) =>
    F32Near(callback_data.avg_waveform_amplitude,
            F32Add(F32Mul(cb.before, NineTenthsF32),
                   F32Mul(MeanScaledBy[cb.in_buffer, cb.stored], TenthF32)))

\* C16: while every callback has had the same input and the same stored
\* amplitude g of [0.0, 1.0], the level (which starts at 0) never falls and
\* never passes the mean magnitude of the input scaled by g.
C16_LevelMonotoneTowardsMean ==
  (LevelUpdated /\ steady.state = "steady" /\ InUnitRange(cb.stored))
    => /\ ~F32Lt(callback_data.avg_waveform_amplitude, cb.before)
       /\ ~F32Gt(callback_data.avg_waveform_amplitude,
                 MeanScaledBy[steady.in_buffer, steady.amplitude])

\* A step changes the level.
LevelWritten ==
  callback_data'.avg_waveform_amplitude # callback_data.avg_waveform_amplitude

\* A step is one of the two of the callback's update, each taken once per
\* invocation, with the write lock held by the callback and no reader in,
\* and leaves the relay and set_amplitude where they are.
LevelWriteIsTheCallbacks ==
  /\ dataLock.writer = "audio"
  /\ dataLock.readers = {}
  /\ \/ cb.pc = "write" /\ cb'.pc = "decayed"
     \/ cb.pc = "decayed" /\ cb'.pc = "updated"
  /\ relay' = relay
  /\ lastSet' = lastSet

\* C17: the level changes only in a step of the callback's update, under
\* the callback's write lock; the callback holds that lock throughout its
\* update, and the relay holds its read lock only while no writer holds the
\* lock: the relay and set_amplitude never write the level, and no thread
\* reads or writes it during the callback's update.
C17_LevelWrittenOnlyByCallback ==
  /\ [](dataLock.readers # {} => dataLock.writer = NoHolder)
  /\ [](cb.pc \in {"write", "decayed", "updated"} => dataLock.writer = "audio")
  /\ [][LevelWritten => LevelWriteIsTheCallbacks]_allVars

\* C17 witness: the callback has updated the level under its write lock
\* while the relay waits to read it, after a set_amplitude.
C17_Witness ==
  /\ LevelUpdated
  /\ callback_data.avg_waveform_amplitude # cb.before
  /\ relay.pc = "matched"
  /\ lastSet # NoF32

\* C18: before any sink is registered no channel holds a message and the
\* relay keeps no strength; and every message of a sink's channel, and the
\* one the relay is about to send, was read when that sink had been
\* registered.
C18_NothingSentOrKeptWithoutSink ==
  /\ nsinks = 0 =>
       /\ \A s \in Sinks : queue[s] = <<>>
       /\ relay.strength = NoF32
       /\ relay.target = NoSink
  /\ \A s \in Sinks : \A i \in 1..Len(queue[s]) : queue[s][i].stamp >= s
  /\ relay.pc = "sending" => relay.stamp >= relay.target

\* C18 witness: the relay has run an iteration that found no sink, and a
\* sink registered later holds a message.
C18_Witness ==
  /\ relay.skipped
  /\ \E s \in Sinks : queue[s] # <<>>

\* C19: the relay is never in a send that cannot return: it is not at its
\* send with the channel of its sink full.
C19_FullChannelDoesNotBlockRelay ==
  ~(relay.pc = "sending" /\ ~SendReturns(queue[relay.target]))

\* C20: the sink in the holder is the last one registered; a relay iteration
\* that has matched a sink sends to the one in the holder; and every message
\* in a channel was read while its sink was the last one registered.
C20_MessagesGoToLastRegisteredSink ==
  /\ gui_input = nsinks
  /\ relay.pc \in {"matched", "reading", "sending"} => relay.target = gui_input
  /\ \A s \in Sinks : \A i \in 1..Len(queue[s]) : queue[s][i].stamp = s

\* C20 witness: a second sink has replaced the first, and both hold
\* messages.
C20_Witness ==
  /\ nsinks >= 2
  /\ queue[1] # <<>>
  /\ queue[2] # <<>>

(* --------------------- claims: channel, life, round trip --------------- *)

\* The numbers of the messages of a channel, oldest first.
Serials(channel) == [i \in 1..Len(channel) |-> channel[i].serial]

\* Each number is the one after the number before it, counted in the range
\* of the message numbers.
Consecutive(ns) ==
  \A i \in 1..(Len(ns) - 1) : ns[i + 1] = (ns[i] + 1) % fifo.range

\* The last message taken from the channel of sink s, if any, and the
\* messages still in it: their numbers.
TakenAndHeld(s) ==
  (IF taken.sink = s THEN <<taken.serial>> ELSE <<>>) \o Serials(queue[s])

\* C21: a channel never holds more than 16 messages; the message the
\* consumer took last and the messages waiting in the channel are, in that
\* order, consecutive pushes of the relay up to its latest: none is missing,
\* none is there twice, none has overtaken another.
C21_ChannelBoundedAndFifo ==
  /\ \A s \in Sinks : Len(queue[s]) <= ChannelCapacity
  /\ \A s \in Sinks : Consecutive(TakenAndHeld(s))
  /\ LET known == TakenAndHeld(gui_input)
     IN  IF known = <<>> THEN fifo.next = 0
         ELSE fifo.next = (known[Len(known)] + 1) % fifo.range
  /\ (taken = NoneTaken /\ queue[gui_input] # <<>>)
       => queue[gui_input][1].serial = 0

\* C21 witness: the channel is full, the consumer has taken messages, and
\* the message numbers have started again from 0 within the channel.
C21_Witness ==
  /\ Len(queue[1]) = ChannelCapacity
  /\ taken.sink = 1
  /\ queue[1][1].serial > queue[1][ChannelCapacity].serial

\* C22: once terminate is set the relay thread ends, whatever the state of
\* the sink and of its channel: no sink, a channel empty or full, its
\* consumer alive or gone.
C22_RelayExitsAfterTerminate == terminate ~> (relay.pc = "exited")

\* C22 witness: the relay has ended with the flag set, its sink's channel
\* full and the consumer alive.
C22_Witness ==
  /\ terminate
  /\ relay.pc = "exited"
  /\ gui_input # NoSink
  /\ ~Disconnected(gui_input)
  /\ ~SendReturns(queue[gui_input])

\* C23: start_duplex_callback returns the open failure when the device
\* rejects the stream, and then no stream is stored; the start failure when
\* the stream does not start; and Ok only with the stream stored.
C23_StartReportsDeviceFailure ==
  /\ started.device = "open_rejected" =>
       (started.result = "open_failed" /\ duplex_stream = "none")
  /\ started.device = "start_fails" => started.result = "start_failed"
  /\ started.result = "ok" => duplex_stream \in {"started", "stopped"}

\* C24: the drop of a Receiver that holds no stream (start not called, open
\* rejected, start failed) does not panic.
C24_TeardownWithoutStreamIsNoOp ==
  duplex_stream = "none" => teardown # "panicked"

\* C25: the teardown has stopped the stream before it joins the relay
\* thread, termination has been signalled before the join, and the relay
\* thread has ended before the serial port is flushed.
C25_TeardownInOrder ==
  /\ teardown \in {"stopped", "joining", "joined", "flushed"}
       => duplex_stream = "stopped"
  /\ teardown \in {"joining", "joined", "flushed"} => terminate
  /\ teardown \in {"joined", "flushed"} => relay.pc = "exited"

\* C26: every iteration of the relay that has begun ends, with no sink, with
\* a sink whose receiving end is closed, and with a message that cannot be
\* delivered.
C26_EveryRelayTickCompletes ==
  (relay.pc = "slept") ~> (relay.pc \in {"top", "exited"})

\* C26 witness: a send has returned Err, and the relay is back at the top of
\* its loop with the flag not set.
C26_Witness ==
  /\ fifo.refused
  /\ relay.pc = "top"
  /\ ~terminate

\* C27: get_frequency's parser, given the request set_frequency renders for
\* a frequency, returns that frequency.
C27_ParseOfRenderIsIdentity ==
  rt.pc = "parsed" => (rt.res.ok /\ rt.res.value = rt.f)

\* C28: Cat::set_frequency makes one write and no read of the transport; it
\* returns Ok exactly when the write reported the whole request written, and
\* the io error when the write failed.
C28_SetFrequencyWritesOnceReadsNever ==
  /\ \A t \in Threads :
       op[t].kind = "set" =>
         (pc[t] # "receiving" /\ io[t].reads = 0 /\ io[t].writes <= 1)
  /\ Finished("set") =>
       /\ returned.io.writes = 1
       /\ returned.io.reads = 0
       /\ returned.got = <<>>
       /\ returned.res.ok <=> WroteAll(returned.op, returned.io)
       /\ returned.io.wrote = -1 => returned.res = Err("Io")

\* C28 witness: set_frequency(7074000) has returned Ok after one write of
\* its whole request, while the radio has been sent nothing to answer.
C28_Witness ==
  /\ Finished("set")
  /\ returned.op.freq = FromNat(7074000)
  /\ returned.res.ok
  /\ returned.io.writes = 1
  /\ portOut = returned.op.request
  /\ nreq = 0

\* C29: from the start of its sample loop until it takes the write lock
\* after it, the callback holds the lock of the callback data neither for
\* reading nor for writing.
C29_NoLockHeldDuringSampleLoop ==
  cb.pc \in {"loop", "looped"} =>
    /\ "audio" \notin dataLock.readers
    /\ dataLock.writer # "audio"

\* C29 witness: the callback is at its sample loop while the relay holds the
\* read lock.
C29_Witness ==
  /\ cb.pc = "loop"
  /\ dataLock.readers = {"relay"}
  /\ dataLock.writer = NoHolder

\* C30: the relay never holds the write lock, holds the read lock only
\* between taking it and copying the level, and holds no lock of the
\* callback data when it is at its send.
C30_RelayHoldsReadLockOnlyToCopy ==
  /\ dataLock.writer # "relay"
  /\ ("relay" \in dataLock.readers) <=> (relay.pc = "reading")
  /\ relay.pc = "sending" => "relay" \notin dataLock.readers

\* C30 witness: the relay waits at its send on a full channel, and the lock
\* of the callback data is free.
C30_Witness ==
  /\ relay.pc = "sending"
  /\ ~SendReturns(queue[relay.target])
  /\ DataLockFree

(* ----------------- claims: the Cat's responses and its lock ------------- *)

\* C34: once a set_frequency has failed in the Cat (the mutex is poisoned
\* exactly when one has: Return), a later set_frequency still takes the Cat
\* lock and goes on to write its request: the calling thread does not end
\* at the lock.
C34_LaterSetFrequencyStillRuns ==
  \A t \in Threads :
    (poisoned /\ op[t].kind = "set") => pc[t] # "panicked"

\* C40: the response of every transaction that returned Ok has at least two
\* bytes, ends with the terminator and holds no other terminator.
C40_OkResponseIsOneMessage ==
  (returned.op.kind \in {"raw", "get"} /\ returned.res.ok) =>
    LET response == Bytes(returned.res.resp)
    IN  /\ Len(response) >= MinResponseLen
        /\ response[Len(response)] = Terminator
        /\ \A i \in 1..(Len(response) - 1) : response[i] # Terminator

\* C40 witness: a transaction has returned Ok while bytes that came after
\* its terminator wait in the input buffer.
C40_Witness ==
  /\ returned.op.kind \in {"raw", "get"}
  /\ returned.res.ok
  /\ wire # <<>>

(* --------------------------- claims: the Gui --------------------------- *)

\* C37: whenever the Gui is muted, the amplitude last passed to
\* set_amplitude is 0.0.
C37_MutedMeansZeroGain ==
  gui.muted => lastSet = F32Zero(0)

\* C38: from a frequency below 99,999,999 the Gui's frequency stays within
\* 0..99,999,998 whatever steps and bands are asked for, and no sum or
\* difference computed for it leaves the u32 range.
C38_FrequencyStaysInRange ==
  gui.state = "built" =>
    (gui.frequency \in 0..(MaxFrequency - 1) /\ ~gui.wrapped)

\* C38 witness: a step up asked for at 99,999,998 has been turned down.
C38_Witness ==
  /\ gui.last.kind \in {"up", "wheel_up"}
  /\ gui.before = MaxFrequency - 1
  /\ gui.frequency = MaxFrequency - 1

\* The frequency a step of the last message's kind and digit leads to from
\* the frequency before it, and NoFrequency when that is out of
\* 0..99,999,998 or there is no digit to step.
StepTarget ==
  LET step == Pow10(gui.last.digit)
      to == IF gui.last.kind \in {"up", "wheel_up"}
            THEN gui.before + step ELSE gui.before - step
  IN  IF gui.last.digit = NoDigit THEN NoFrequency
      ELSE IF to \in 0..(MaxFrequency - 1) THEN to ELSE NoFrequency

\* C39: a step that is accepted and a band select make one set_frequency
\* call, with the Gui's new frequency; a step that is turned down makes
\* none and leaves the frequency; and the frequency last commanded, once
\* there is one, is the Gui's.
C39_CommandedFrequencyIsTheGuis ==
  /\ gui.last.kind \in {"up", "down", "wheel_up", "wheel_down"} =>
       IF StepTarget = NoFrequency
       THEN gui.frequency = gui.before /\ gui.calls = 0
       ELSE gui.frequency = StepTarget /\ gui.calls = 1
  /\ gui.last.kind = "band" => gui.calls = 1
  /\ gui.calls = 1 => gui.sent = gui.frequency
  /\ gui.sent # NoFrequency => gui.sent = gui.frequency

\* C39 witness: a step has been accepted, and the step after it turned down.
C39_Witness ==
  /\ gui.last.kind \in {"up", "down", "wheel_up", "wheel_down"}
  /\ gui.calls = 0
  /\ gui.sent # NoFrequency
  /\ gui.sent = gui.before

(* ------------------- claims: a buffer of any size ---------------------- *)

\* C31: the value the callback has after its loop and its division, the one
\* it folds into the level, is the sum of the magnitudes of the samples the
\* loop processed divided by their number, frames * 2, whatever frames is.
C31_FoldedValueIsMeanOfBuffer ==
  buf.pc = "looped" =>
    buf.avg_waveform_amplitude =
      F32Div(SumAbs(buf.out_buffer, 1, Len(buf.out_buffer), F32Zero(0)),
             F32Lit(buf.frames * 2))

(* ------------------ claims: shutdown and registration ------------------ *)

\* C32: with terminate set the relay puts at most one more message in a
\* channel.
C32_AtMostOneMessageAfterTerminate == fifo.late <= 1

\* C32 witness: the relay has ended after the one message of the iteration
\* it was in when terminate was set.
C32_Witness ==
  /\ terminate
  /\ fifo.late = 1
  /\ relay.pc = "exited"

\* C33: a teardown that has come to join the relay thread gets past the
\* join.
C33_TeardownGetsPastJoin ==
  (teardown = "joining") ~> (teardown \in {"joined", "flushed"})

\* C36: set_gui_input does not wait for the consumer: while the relay waits
\* in send for room in a channel whose consumer is alive, the mutex of the
\* sink holder, which set_gui_input takes, is free.
C36_RegistrationNeverWaitsForConsumer ==
  ( /\ relay.pc = "sending"
    /\ ~Disconnected(relay.target)
    /\ ~SendReturns(queue[relay.target]) )
  => guiInputLock = NoHolder

(* ----------------------- claims: the whole receiver -------------------- *)

\* C35: while terminate is not set no threads of the receiver wait for one
\* another in a circle over the locks and the channel.
C35_NoDeadlock ==
  ~terminate => \A S \in SUBSET SystemThreads : ~Deadlocked(S)

\* C35 witness: the control thread would wait for the relay, which holds
\* the sink holder's mutex and waits for the callback, which holds the
\* write lock.
C35_Witness ==
  /\ "relay" \in WaitsFor("control")
  /\ "audio" \in WaitsFor("relay")
  /\ WaitsFor("audio") = {}

=============================================================================
